---- MODULE Spec2Model ----
(***************************************************************************)
(* Model of the Flow-Agent stock search agent                              *)
(* (Clova-FinAgent/agents/stock_search_agent.py and the core modules it    *)
(* calls): the LangGraph stage graph driven by StockSearchAgent.search,    *)
(* the call parser _parse_tool_calls and the routing functions.            *)
(*                                                                         *)
(* Texts are modelled by their structure.  A model reply is a sequence of  *)
(* segments, one per brace-delimited fragment the reply contains, each     *)
(* with the delimiter around it and the JSON object inside it.  A result   *)
(* text is a sequence of lines.                                            *)
(***************************************************************************)
EXTENDS Integers, Sequences, FiniteSets, TLC

(***************************************************************************)
(* Bounds of the model.                                                    *)
(***************************************************************************)
\* longest model reply, in segments, handed to the call parser on its own
MaxSegs == 2
\* longest model reply, in segments, inside a run
MaxRunSegs == 3
\* listing rows of a tool output
MaxLines == 2
\* longest call list handed to the routing functions on their own
MaxRouteCalls == 2
\* largest retry_count handed to the routing functions
MaxRetry == 3
\* most entity lines in a listing handed to the result filter
MaxEntities == 150
\* most header lines in such a listing
MaxHeaders == 2
\* most query operations made on the databases
MaxDbOps == 3
\* most rows of a query result handed to the SQL formatter
MaxSqlRows == 53

(***************************************************************************)
(* JSON values and segments of a model reply.                              *)
(***************************************************************************)
\* a JSON value: t is its Python type after json.loads, v identifies it
Str(s) == [t |-> "str", v |-> s]
DictBoth == [t |-> "dict", v |-> "stock+date"]
DictOther == [t |-> "dict", v |-> "other"]
ListVal == [t |-> "list", v |-> "x"]
\* a string value whose text holds a closing brace
BraceStr == Str("x } y")

\* tool names a reply may carry: two registered tools, the reserved SQL
\* name, and a name no tool is registered under
ToolNames == {"get_stock_price", "search_price", "text2sql", "no_such_tool"}

ArgValues == {Str("a"), Str("b"), Str(""), BraceStr, DictBoth, DictOther, ListVal}

\* the JSON text between the braces of one fragment
\*   k = "call"   : an object with the keys name and args
\*   k = "action" : an object {"action": "text2sql", ...}
\*   k = "bad"    : a brace span holding "name" and "args" that is not JSON
CallObj(n, a, nf) == [k |-> "call", name |-> n, args |-> a, nameFirst |-> nf]
ActionObj == [k |-> "action", name |-> "", args |-> Str("q"), nameFirst |-> TRUE]
BadObj == [k |-> "bad", name |-> "", args |-> Str(""), nameFirst |-> TRUE]

Objects == {CallObj(n, a, nf) : n \in ToolNames, a \in ArgValues, nf \in BOOLEAN}
             \cup {ActionObj, BadObj}

\* the delimiter around a fragment:
\*   "label"    TOOL_CALL: {...}       "fence"  ```json {...} ```
\*   "tick"     `{...}`                "bare"   {...}
\*   "t2slabel" TEXT2SQL: {...}
Wraps == {"label", "fence", "tick", "bare", "t2slabel"}

Segments == [wrap : Wraps, obj : Objects]

\* does the object text hold a nested brace pair (an object-valued args)
Nested(o) == o.k = "call" /\ o.args.t = "dict"

\* does the object text hold a closing brace with no opening one before it
\* (inside a string value): a capture by [^{}]* or [^}]* ends at that brace
Unclosed(o) == o.k = "call" /\ o.args = BraceStr

\* a capture that runs to the first unmatched closing brace: the whole
\* object, or a fragment cut inside the string, which is not JSON
Cut(o) == IF Unclosed(o) THEN BadObj ELSE o

(***************************************************************************)
(* json.loads of a captured fragment: ok = FALSE is JSONDecodeError.       *)
(***************************************************************************)
json_loads(o) == [ok |-> o.k # "bad", obj |-> o]

\* json.dumps of an action object: a string holding the whole directive
json_dumps(o) == Str("json(action)")

(***************************************************************************)
(* The five regular expressions, as the fragments each captures from one   *)
(* segment (re.findall).                                                   *)
(***************************************************************************)
\* pattern1: TOOL_CALL:\s*(\{[^{}]*(?:\{[^{}]*\}[^{}]*)*\})
matches1(s) == IF s.wrap = "label" THEN <<Cut(s.obj)>> ELSE <<>>

\* pattern2: fenced action object | fenced object without an inner closing
\* brace | object between backticks
matches2(s) ==
    IF s.wrap = "fence" /\ ~Nested(s.obj) /\ ~Unclosed(s.obj) THEN <<s.obj>>
    ELSE IF s.wrap = "tick" THEN <<s.obj>>
    ELSE <<>>

\* pattern3: a brace span without inner braces holding "action" ... "text2sql"
matches3(s) == IF s.obj.k = "action" THEN <<s.obj>> ELSE <<>>

\* pattern4: a brace span holding "name" and then "args" before any inner brace
matches4(s) ==
    IF s.obj.k = "bad" \/ (s.obj.k = "call" /\ s.obj.nameFirst)
    THEN <<Cut(s.obj)>> ELSE <<>>

\* pattern5: TEXT2SQL:\s*(\{ ... "action" ... "text2sql" ... \})
matches5(s) == IF s.wrap = "t2slabel" /\ s.obj.k = "action" THEN <<s.obj>> ELSE <<>>

RECURSIVE Concat(_)
\* the concatenation of a sequence of sequences
Concat(ss) == IF ss = <<>> THEN <<>> ELSE Head(ss) \o Concat(Tail(ss))

\* the captures of pattern p in one segment
matches(p, s) ==
    CASE p = 1 -> matches1(s)
      [] p = 2 -> matches2(s)
      [] p = 3 -> matches3(s)
      [] p = 4 -> matches4(s)
      [] p = 5 -> matches5(s)

\* re.findall(pattern p, content): the captures of every segment, in order
FindAll(p, reply) == Concat([i \in 1..Len(reply) |-> matches(p, reply[i])])

(***************************************************************************)
(* _parse_tool_calls: five passes, then de-duplication.                    *)
(***************************************************************************)
\* a Tool Call record as the parser appends it
Call(n, a) == [name |-> n, args |-> a]

Text2SqlCall(o) == Call("text2sql", json_dumps(o))

\* pass 1: a decoded object with name and args is appended as it is
Pass1(m) ==
    LET d == json_loads(m)
    IN  IF d.ok /\ d.obj.k = "call" THEN <<Call(d.obj.name, d.obj.args)>> ELSE <<>>

\* pass 2: an action object becomes a text2sql call, a call object is
\* appended as it is
Pass2(m) ==
    LET d == json_loads(m)
    IN  IF ~d.ok THEN <<>>
        ELSE IF d.obj.k = "action" THEN <<Text2SqlCall(d.obj)>>
        ELSE IF d.obj.k = "call" THEN <<Call(d.obj.name, d.obj.args)>>
        ELSE <<>>

\* passes 3 and 5: an action object becomes a text2sql call
Pass3(m) ==
    LET d == json_loads(m)
    IN  IF d.ok /\ d.obj.k = "action" THEN <<Text2SqlCall(d.obj)>> ELSE <<>>

\* the string pass 4 puts in the place of an object-valued args
FlattenArgs(a) ==
    IF a.t # "dict" THEN a
    ELSE IF a = DictBoth THEN Str("stock+date question")
    ELSE Str("str(dict)")

\* pass 4: a call object is appended with its args flattened
Pass4(m) ==
    LET d == json_loads(m)
    IN  IF d.ok /\ d.obj.k = "call"
        THEN <<Call(d.obj.name, FlattenArgs(d.obj.args))>> ELSE <<>>

Pass5(m) == Pass3(m)

\* what the loop of pass p appends for the capture m
Pass(p, m) ==
    CASE p = 1 -> Pass1(m)
      [] p = 2 -> Pass2(m)
      [] p = 3 -> Pass3(m)
      [] p = 4 -> Pass4(m)
      [] p = 5 -> Pass5(m)

\* the loop of pass p over its captures ms (bound once, then walked)
PassLoop(p, reply) ==
    CHOOSE appended \in {Concat([i \in 1..Len(ms) |-> Pass(p, ms[i])]) :
                            ms \in {FindAll(p, reply)}} : TRUE

\* the records the five passes collect, in the order they are appended
Collected(reply) ==
    PassLoop(1, reply) \o PassLoop(2, reply) \o PassLoop(3, reply)
    \o PassLoop(4, reply) \o PassLoop(5, reply)

\* hash((name, args)) is a TypeError when args is a dict or a list
Hashable(c) == c.args.t \notin {"dict", "list"}

\* a de-duplication loop that forgets the seen set: every record is kept
UniqueKeepAll(calls, seen) == calls

RECURSIVE Unique(_, _)
\* the de-duplication loop over the records left, given those seen so far
Unique(calls, seen) ==
    IF calls = <<>> THEN <<>>
    ELSE IF Head(calls) \in seen THEN Unique(Tail(calls), seen)
    ELSE <<Head(calls)>> \o Unique(Tail(calls), seen \cup {Head(calls)})

\* the de-duplication of the collected records all: raised is the TypeError
Dedup(all) ==
    IF \E i \in 1..Len(all) : ~Hashable(all[i])
    THEN [raised |-> TRUE, calls |-> <<>>]
    ELSE [raised |-> FALSE, calls |-> Unique(all, {})]

\* the whole parser
parse_tool_calls(reply) ==
    CHOOSE r \in {Dedup(all) : all \in {Collected(reply)}} : TRUE

(***************************************************************************)
(* Result texts.  A text is the sequence of its non-blank lines; a line    *)
(* records the call it reports on, what it is, whether the result filter   *)
(* takes it for an entity line and whether it holds one of the             *)
(* parameter-missing phrases.                                              *)
(***************************************************************************)
Line(n, a, kind, i, e, m) ==
    [pre |-> "", name |-> n, args |-> a, kind |-> kind, idx |-> i, ent |-> e, mark |-> m]

EmptyText == <<>>

\* "질문을 더 구체적으로 해주세요. ..." built by clarifier_node
ClarificationPrompt == <<Line("", Str(""), "clarification", 0, FALSE, FALSE)>>

\* the synthesizer's reply to the generation prompt
FinalAnswer == <<Line("", Str(""), "answer", 0, FALSE, FALSE)>>

\* "검색 중 오류 발생: ..." built by search
ErrorMsg == <<Line("", Str(""), "search_error", 0, FALSE, FALSE)>>

\* the listing rows of a tool output
Rows(c, k) == [i \in 1..k |-> Line(c.name, c.args, "row", i, TRUE, FALSE)]

\* a handler's output for call c: a header line and k listing rows
NormalOutput(c, k) == <<Line(c.name, c.args, "result", 0, FALSE, FALSE)>> \o Rows(c, k)

\* a handler's output holding one of the parameter-missing phrases
MarkerOutput(c) == <<Line(c.name, c.args, "result", 0, FALSE, TRUE)>>

\* any(keyword in result for keyword in error_keywords)
HasMarker(text) == \E i \in 1..Len(text) : text[i].mark

\* "\n\n".join(parts)
Join(parts) == Concat(parts)

(***************************************************************************)
(* Tool registry and handlers.                                             *)
(***************************************************************************)
\* QueryParser.tool_mappings, from which _create_tools builds self.tools
tool_mappings ==
    {"get_stock_price", "get_market_stats", "get_market_index", "search_company",
     "search_price", "search_price_change", "search_volume",
     "search_trading_value_ranking", "get_rsi_signals", "get_bollinger_signals",
     "get_ma_breakout", "get_volume_surge", "get_cross_signals",
     "count_cross_signals", "search_compound", "text2sql"}

TOOLS_NEED_FILTERING ==
    {"search_price_change", "search_volume", "search_price", "search_compound",
     "get_rsi_signals", "get_ma_breakout", "get_volume_surge", "get_cross_signals",
     "text2sql"}

\* what the world does when a handler runs: it returns a listing, returns a
\* text holding a parameter-missing phrase, or raises
OutKinds == {"ok", "marker", "raise"}

\* the handler of a registered tool on call c: raised, or the text returned
Handler(c, out, k) ==
    IF out = "raise" THEN [raised |-> TRUE, text |-> EmptyText]
    ELSE IF out = "marker" THEN [raised |-> FALSE, text |-> MarkerOutput(c)]
    ELSE [raised |-> FALSE, text |-> NormalOutput(c, k)]

\* QueryParser.parse_and_execute: every exception of the handler is caught
\* and returned as "<tool> 실행 중 오류: ..." text
parse_and_execute(c, out, k) ==
    LET h == Handler(c, out, k)
    IN  IF c.name \notin tool_mappings
        THEN [raised |-> FALSE, text |-> <<Line(c.name, c.args, "unknown", 0, FALSE, FALSE)>>]
        ELSE IF h.raised
        THEN [raised |-> FALSE, text |-> <<Line(c.name, c.args, "exec_error", 0, FALSE, FALSE)>>]
        ELSE h

\* execute_text2sql without its try: a failing step raises into the caller
execute_text2sql_unguarded(c, q, out, k) ==
    IF out = "raise"
    THEN [raised |-> TRUE, text |-> EmptyText]
    ELSE IF out = "marker"
    THEN [raised |-> FALSE, text |-> <<Line(c.name, q, "result", 0, TRUE, TRUE)>>]
    ELSE [raised |-> FALSE,
          text |-> <<Line(c.name, q, "result", 0, TRUE, FALSE)>>
                   \o [i \in 1..k |-> Line(c.name, q, "row", i, TRUE, FALSE)]]

\* Text2SQLNode.execute_text2sql on question q: the formatted rows, or the
\* "TEXT2SQL 실행 중 오류 발생" text when any step raises
execute_text2sql(c, q, out, k) ==
    IF out = "raise"
    THEN [raised |-> FALSE, text |-> <<Line(c.name, q, "sql_error", 0, FALSE, FALSE)>>]
    ELSE IF out = "marker"
    THEN [raised |-> FALSE, text |-> <<Line(c.name, q, "result", 0, TRUE, TRUE)>>]
    ELSE [raised |-> FALSE,
          text |-> <<Line(c.name, q, "result", 0, TRUE, FALSE)>>
                   \o [i \in 1..k |-> Line(c.name, q, "row", i, TRUE, FALSE)]]

(***************************************************************************)
(* QueryParser._extract_parameters and the handlers that read its result.  *)
(***************************************************************************)
\* the keys the two handlers modelled read, and a key's value in a JSON
\* object: "<absent>" when the object does not hold the key
ParamKeys == {"ticker", "date", "rsi_min", "rsi_max"}
Absent == "<absent>"
ParamObjects == [ParamKeys -> {Absent, "v"}]

\* the empty mapping {}
EmptyMapping == [k \in ParamKeys |-> Absent]

\* what json.loads can give the extractor
DictValue(o) == [t |-> "dict", obj |-> o]
ListValue == [t |-> "list", obj |-> EmptyMapping]
NumValue == [t |-> "number", obj |-> EmptyMapping]

\* the reply of the extraction model
\*   "object" : a JSON object       "broken" : a brace span that is not JSON
\*   "text"   : no brace, no JSON   "list", "number" : a JSON value, no brace
\*   "split"  : a JSON object with a closing brace inside a string value, as
\*              {"ticker": "A}B"}: the span the pattern finds ends at that
\*              brace and is not JSON, the whole object is
\* prose: words around it
ExtractReplies ==
    [shape : {"object"}, obj : ParamObjects, prose : BOOLEAN]
    \cup [shape : {"split"}, obj : ParamObjects \ {EmptyMapping}, prose : BOOLEAN]
    \cup [shape : {"broken", "text", "list", "number"}, obj : {EmptyMapping},
          prose : BOOLEAN]

ParamHandlers == {"get_stock_price", "get_rsi_signals"}

\* llm = "raise": self.llm.invoke raises
ExtractInputs ==
    [handler : ParamHandlers, llm : {"ok"}, reply : ExtractReplies]
    \cup [handler : ParamHandlers, llm : {"raise"},
          reply : {[shape |-> "text", obj |-> EmptyMapping, prose |-> FALSE]}]

NoExtractInput ==
    [handler |-> "get_stock_price", llm |-> "ok",
     reply |-> [shape |-> "text", obj |-> EmptyMapping, prose |-> FALSE]]

\* the body of the try of _extract_parameters: raised is an exception
\* leaving it
extract_try(x) ==
    IF x.llm = "raise" THEN [raised |-> TRUE, value |-> DictValue(EmptyMapping)]
    ELSE IF x.reply.shape = "object"
    THEN [raised |-> FALSE, value |-> DictValue(x.reply.obj)]
    ELSE IF x.reply.shape \in {"broken", "split"}
    THEN [raised |-> TRUE, value |-> DictValue(EmptyMapping)]
    ELSE IF x.reply.shape = "text" \/ x.reply.prose
    THEN [raised |-> TRUE, value |-> DictValue(EmptyMapping)]
    ELSE IF x.reply.shape = "list" THEN [raised |-> FALSE, value |-> ListValue]
    ELSE [raised |-> FALSE, value |-> NumValue]

\* _extract_parameters without its except clause
extract_parameters_unguarded(x) == extract_try(x)

\* _extract_parameters: any exception of the try becomes {}
extract_parameters(x) ==
    IF extract_try(x).raised
    THEN [raised |-> FALSE, value |-> DictValue(EmptyMapping)]
    ELSE extract_try(x)

\* params.get(key, default)
Get(o, key, default) == IF o[key] = Absent THEN default ELSE o[key]

NoCall == [fn |-> "none", args |-> <<>>]

\* _handle_stock_price and _handle_rsi_signals: the query function called
\* and its arguments; raised is an exception leaving the handler
handle(x) ==
    LET params == extract_parameters(x)
    IN  IF params.raised
        THEN [params |-> params, raised |-> TRUE, call |-> NoCall]
        ELSE IF params.value.t # "dict"
        THEN [params |-> params, raised |-> TRUE, call |-> NoCall]
        ELSE IF x.handler = "get_stock_price"
        THEN [params |-> params, raised |-> FALSE,
              call |-> [fn |-> "get_stock_price_info",
                        args |-> <<Get(params.value.obj, "ticker", "005930"),
                                   Get(params.value.obj, "date", "2025-09-15")>>]]
        ELSE [params |-> params, raised |-> FALSE,
              call |-> [fn |-> "get_rsi_signals",
                        args |-> <<Get(params.value.obj, "date", "2025-09-15"),
                                   Get(params.value.obj, "rsi_min", "None"),
                                   Get(params.value.obj, "rsi_max", "None")>>]]

NotHandled ==
    [done |-> FALSE, params |-> [raised |-> FALSE, value |-> DictValue(EmptyMapping)],
     raised |-> FALSE, call |-> NoCall]

(***************************************************************************)
(* State.                                                                  *)
(***************************************************************************)
VARIABLES
    enable_detailed_logging,  \* StockSearchAgent.enable_detailed_logging
    pc,                       \* the stage about to run, or where search stands
    return_detailed_info,     \* the parameter of the search call in progress
    state,                    \* the StockSearchState threaded through the graph
    visited,                  \* the stages the run has executed, in order
    outcomes,                 \* what the world did for each executed call
    filtered,                 \* what the filter stage of the run did, if it ran
    gen_input,                \* the result text put into the generation prompt
    exc,                      \* the exception in flight, "none" when there is none
    returned,                 \* what the last search call gave its caller
    content,                  \* a reply handed to the call parser on its own
    parsed,                   \* what the call parser made of content
    rin,                      \* a state handed to the routing functions
    rout,                     \* the stages they chose
    fin,                      \* a query and result text handed to the result filter
    fout,                     \* the text the result filter made of it
    xin,                      \* a handler, and what the extraction model does for it
    xout,                     \* what the handler got from the extractor and did with it
    prior,                    \* what the run before the present one left in its state
    db,                       \* the query operations on the databases and their connections
    fmt                       \* a query result handed to the SQL formatter, and its text

runVars ==
    <<pc, return_detailed_info, state, visited, outcomes, filtered, gen_input, exc, returned>>
agentVars == <<enable_detailed_logging>>
parserVars == <<content, parsed>>
routeVars == <<rin, rout>>
filterVars == <<fin, fout>>
extractVars == <<xin, xout>>
\* the arguments and results of the functions checked on their own
dbVars == <<db>>
fmtVars == <<fmt>>
unitVars == <<parserVars, routeVars, filterVars, extractVars, dbVars, fmtVars>>
sessionVars == <<prior>>
vars == <<agentVars, runVars, unitVars, sessionVars>>

(***************************************************************************)
(* Queries, by the two things the result filter reads in them.             *)
(***************************************************************************)
\* all: one of the keywords 모두, 전체, 모든 occurs; count: the N of the first
\* "N개" of the query, -1 when there is none
Queries == [all : BOOLEAN, count : {-1, 1}]
\* the question text2sql_node forwards when a call's args is empty
QueryText == Str("<query>")

\* the replies the proposing model gives inside a run: labeled calls
RunSegments ==
    {[wrap |-> "label", obj |-> CallObj(n, a, TRUE)] :
        n \in {"get_stock_price"}, a \in {Str("a"), ListVal}}
    \cup {[wrap |-> "label", obj |-> CallObj(n, Str("a"), TRUE)] :
        n \in {"search_price", "no_such_tool", "text2sql"}}

SeqsUpTo(S, n) == UNION {[1..k -> S] : k \in 0..n}

RunReplies == SeqsUpTo(RunSegments, MaxRunSegs)

HumanMessage(c) == [role |-> "human", content |-> c]
AIMessage(c) == [role |-> "ai", content |-> c]

\* the StockSearchState search builds
initial_state(q) ==
    [messages |-> <<>>, query |-> q, result |-> EmptyText, tool_calls |-> <<>>,
     iterations |-> 0, validation_status |-> "pending",
     clarification_needed |-> FALSE, retry_count |-> 0,
     tool_results |-> <<>>, node_traces |-> <<>>,
     tool_execution_results |-> <<>>]

IdleState == initial_state([all |-> FALSE, count |-> -1])

NotFiltered == [ran |-> FALSE, truncated |-> FALSE, text |-> EmptyText]

NoReturn == [kind |-> "none", final_result |-> EmptyText, detail |-> "none"]

\* _log_state_change: one trace entry, when detailed logging is enabled
log_state_change(st, node) ==
    IF ~enable_detailed_logging THEN st
    ELSE [st EXCEPT !.node_traces = Append(@,
            [node_name |-> node, validation_status |-> st.validation_status])]

(***************************************************************************)
(* Routing functions of _create_graph.                                     *)
(***************************************************************************)
has_text2sql(calls) == \E i \in 1..Len(calls) : calls[i].name = "text2sql"
has_regular_tools(calls) == \E i \in 1..Len(calls) : calls[i].name # "text2sql"

\* should_continue sending a mixed call list to SQL synthesis first
should_continue_sql_first(st) ==
    IF st.tool_calls = <<>> THEN "generation"
    ELSE IF has_text2sql(st.tool_calls) THEN "text2sql"
    ELSE "tools"

should_continue(st) ==
    IF st.tool_calls = <<>> THEN "generation"
    ELSE IF has_text2sql(st.tool_calls) /\ has_regular_tools(st.tool_calls) THEN "tools"
    ELSE IF has_text2sql(st.tool_calls) THEN "text2sql"
    ELSE IF has_regular_tools(st.tool_calls) THEN "tools"
    ELSE "generation"

\* after_tools_routing asking for clarification after any failed batch
after_tools_routing_any_failure(st) ==
    IF st.validation_status \in {"param_missing", "tool_error"} /\ st.retry_count < 2
    THEN "clarifier"
    ELSE IF has_text2sql(st.tool_calls) THEN "text2sql"
    ELSE "filter_decision"

\* after_tools_routing with the retry bound off by one
after_tools_routing_le(st) ==
    IF st.validation_status = "param_missing" /\ st.retry_count <= 2 THEN "clarifier"
    ELSE IF has_text2sql(st.tool_calls) THEN "text2sql"
    ELSE "filter_decision"

\* after_tools_routing reading the trace fields: a traced run skips the clarifier
after_tools_routing_traced(st) ==
    IF st.node_traces # <<>> THEN "filter_decision"
    ELSE IF st.validation_status = "param_missing" /\ st.retry_count < 2 THEN "clarifier"
    ELSE IF has_text2sql(st.tool_calls) THEN "text2sql"
    ELSE "filter_decision"

\* after_tools_routing looking for a remaining text2sql call before the
\* missing-parameter check
after_tools_routing_sql_first(st) ==
    IF has_text2sql(st.tool_calls) THEN "text2sql"
    ELSE IF st.validation_status = "param_missing" /\ st.retry_count < 2 THEN "clarifier"
    ELSE "filter_decision"

after_tools_routing(st) ==
    IF st.validation_status = "param_missing" /\ st.retry_count < 2 THEN "clarifier"
    ELSE IF has_text2sql(st.tool_calls) THEN "text2sql"
    ELSE "filter_decision"

after_text2sql_routing(st) ==
    IF st.validation_status = "param_missing" /\ st.retry_count < 2 THEN "clarifier"
    ELSE "filter_decision"

\* should_filter_results asking every call, not any, to need filtering
should_filter_results_all(st) ==
    IF \A i \in 1..Len(st.tool_calls) : st.tool_calls[i].name \in TOOLS_NEED_FILTERING
    THEN "result_filter" ELSE "generation"

should_filter_results(st) ==
    IF \E i \in 1..Len(st.tool_calls) : st.tool_calls[i].name \in TOOLS_NEED_FILTERING
    THEN "result_filter" ELSE "generation"

\* the unconditional edges
after_agent == "parse"
\* result_filter wired back to the filter decision: a cycle in the graph
after_result_filter_back == "filter_decision"

after_result_filter == "generation"
\* the clarifier wired to the generation stage instead of END
after_clarifier_to_generation == "generation"
after_clarifier == "end"
after_generation == "end"

(***************************************************************************)
(* The search call and the stages of the graph.  Each stage action ends    *)
(* with the edge the graph takes out of it.                                *)
(***************************************************************************)
\* a search that hands the lists of the state at hand to the new run
StartRunKeepingLists(q, d) ==
    /\ pc \in {"idle", "done"}
    /\ pc' = "agent"
    /\ return_detailed_info' = d
    /\ state' = [initial_state(q) EXCEPT
                    !.messages = state.messages,
                    !.tool_results = state.tool_results,
                    !.tool_execution_results = state.tool_execution_results]
    /\ visited' = <<>>
    /\ outcomes' = <<>>
    /\ filtered' = NotFiltered
    /\ gen_input' = EmptyText
    /\ exc' = "none"
    /\ returned' = NoReturn
    /\ UNCHANGED <<agentVars, unitVars>>

\* search builds the initial state and invokes the graph
StartRun(q, d) ==
    /\ pc \in {"idle", "done"}
    /\ pc' = "agent"
    /\ return_detailed_info' = d
    /\ state' = initial_state(q)
    /\ visited' = <<>>
    /\ outcomes' = <<>>
    /\ filtered' = NotFiltered
    /\ gen_input' = EmptyText
    /\ exc' = "none"
    /\ returned' = NoReturn
    /\ UNCHANGED <<agentVars, unitVars>>

\* search(query, return_detailed_info)
search(q, d) == StartRun(q, d) /\ UNCHANGED sessionVars

\* a stage raises: graph.invoke unwinds to the except clause of search
Raise(node, e) ==
    /\ pc' = "raised"
    /\ exc' = e
    /\ visited' = Append(visited, node)
    /\ UNCHANGED <<return_detailed_info, state, outcomes, filtered, gen_input, returned>>
    /\ UNCHANGED <<agentVars, unitVars, sessionVars>>

\* a stage returns st; the graph moves to stage next
Step(node, st, next) ==
    /\ pc' = next
    /\ state' = st
    /\ visited' = Append(visited, node)
    /\ UNCHANGED <<return_detailed_info, exc, returned>>
    /\ UNCHANGED <<agentVars, unitVars, sessionVars>>

\* agent_node when the proposing model answers reply
agent_replied(reply) ==
    LET s1 == log_state_change(state, "agent_node")
        s2 == [s1 EXCEPT !.messages = @ \o <<HumanMessage(state.query), AIMessage(reply)>>,
                         !.iterations = @ + 1]
    IN  /\ Step("agent", log_state_change(s2, "agent_node"), after_agent)
        /\ UNCHANGED <<outcomes, filtered, gen_input>>

\* agent_node: the proposing model is asked for tool calls
agent_node ==
    /\ pc = "agent"
    /\ \/ \E reply \in RunReplies : agent_replied(reply)
       \/ Raise("agent", "LLMError")

\* the content of the last AIMessage of the conversation
LastAIContent(msgs) ==
    LET ai == {i \in 1..Len(msgs) : msgs[i].role = "ai"}
    IN  IF ai = {} THEN <<>>
        ELSE msgs[CHOOSE i \in ai : \A j \in ai : j <= i].content

\* parse_node: the reply is parsed into tool calls
parse_node ==
    /\ pc = "parse"
    /\ \E r \in {parse_tool_calls(LastAIContent(state.messages))} :
         IF r.raised THEN Raise("parse", "TypeError")
         ELSE \E s3 \in {log_state_change(
                            [log_state_change(state, "parse_node") EXCEPT
                                !.tool_calls = r.calls,
                                !.tool_execution_results = <<>>],
                            "parse_node")} :
                /\ Step("parse", s3, should_continue(s3))
                /\ UNCHANGED <<outcomes, filtered, gen_input>>

\* the batch of tools_node without the filter on the name: every parsed call
RegularToolsAll(calls) == calls

\* the calls of a list with, or without, the reserved name text2sql
RegularTools(calls) == SelectSeq(calls, LAMBDA c : c.name # "text2sql")
Text2SqlCalls(calls) == SelectSeq(calls, LAMBDA c : c.name = "text2sql")

\* tool.func of the Tool registered under the call's name: parse_and_execute
ToolFunc(c, out, k) == parse_and_execute(c, out, k)

\* f"{tool_name} 결과: {result}": the prefix joins the first line of the result
Prefixed(name, text) == [text EXCEPT ![1].pre = name]

\* ToolsStep without the lookup of the name in self.tools: tool.func is called
\* for every call of the batch, registered or not
ToolsStepInvokingUnknown(acc, c, out, k) ==
    LET r == ToolFunc(c, out, k)
    IN  IF r.raised
        THEN [acc EXCEPT
                !.results = Append(@, <<Line(c.name, c.args, "error", 0, FALSE, FALSE)>>),
                !.validation_status = "tool_error"]
        ELSE LET vs == IF HasMarker(r.text) THEN "param_missing"
                                            ELSE acc.validation_status
             IN  [acc EXCEPT
                    !.results = Append(@, Prefixed(c.name, r.text)),
                    !.tool_results = Append(@,
                        [tool_name |-> c.name, tool_args |-> c.args,
                         full_result |-> r.text, status |-> vs]),
                    !.validation_status = vs]

\* one pass of the loop of tools_node over the call c, from the loop state acc
ToolsStep(acc, c, out, k) ==
    IF c.name \in tool_mappings
    THEN LET r == ToolFunc(c, out, k)
         IN  IF r.raised
             THEN [acc EXCEPT
                     !.results = Append(@, <<Line(c.name, c.args, "error", 0, FALSE, FALSE)>>),
                     !.validation_status = "tool_error"]
             ELSE LET vs == IF HasMarker(r.text) THEN "param_missing"
                                                 ELSE acc.validation_status
                  IN  [acc EXCEPT
                         !.results = Append(@, Prefixed(c.name, r.text)),
                         !.tool_results = Append(@,
                             [tool_name |-> c.name, tool_args |-> c.args,
                              full_result |-> r.text, status |-> vs]),
                         !.validation_status = vs]
    ELSE [acc EXCEPT
            !.results = Append(@, <<Line(c.name, c.args, "unknown", 0, FALSE, FALSE)>>),
            !.validation_status = "tool_error"]

RECURSIVE ToolsLoopAbortOnFault(_, _, _, _)
\* the loop of tools_node with the try around the loop instead of inside it
ToolsLoopAbortOnFault(acc, calls, outs, k) ==
    IF calls = <<>> THEN acc
    ELSE LET a2 == ToolsStep(acc, Head(calls), Head(outs), k)
         IN  IF a2.validation_status = "tool_error" THEN a2
             ELSE ToolsLoopAbortOnFault(a2, Tail(calls), Tail(outs), k)

RECURSIVE ToolsLoop(_, _, _, _)
\* the loop of tools_node over calls, the world answering outs[i] to call i
ToolsLoop(acc, calls, outs, k) ==
    IF calls = <<>> THEN acc
    ELSE ToolsLoop(ToolsStep(acc, Head(calls), Head(outs), k), Tail(calls), Tail(outs), k)

\* the answers the world can give to a batch of calls
OutsFor(calls) ==
    {o \in [1..Len(calls) -> OutKinds] :
        \A i \in 1..Len(calls) : calls[i].name \notin tool_mappings => o[i] = "ok"}

Executed(calls, outs, node) ==
    [i \in 1..Len(calls) |-> [call |-> calls[i], out |-> outs[i], by |-> node]]

\* a batch stage that files its results in front of those already there
BatchStateNewestFirst(s1, acc, node) ==
    CHOOSE s3 \in
        {log_state_change(
            [s1 EXCEPT
                !.messages = Append(@, AIMessage(tool_result)),
                !.result = tool_result,
                !.validation_status = acc.validation_status,
                !.tool_results = @ \o acc.tool_results,
                !.tool_execution_results = acc.results \o @],
            node) : tool_result \in {Join(acc.results)}} : TRUE

\* BatchState counting a retry when the batch ended with a missing parameter
BatchStateCountingRetry(s1, acc, node) ==
    CHOOSE s3 \in
        {log_state_change(
            [s1 EXCEPT
                !.messages = Append(@, AIMessage(tool_result)),
                !.result = tool_result,
                !.validation_status = acc.validation_status,
                !.retry_count = IF acc.validation_status = "param_missing"
                                THEN @ + 1 ELSE @,
                !.tool_results = @ \o acc.tool_results,
                !.tool_execution_results = @ \o acc.results],
            node) : tool_result \in {Join(acc.results)}} : TRUE

\* the state a batch stage returns: s1 with the loop state acc folded in
BatchState(s1, acc, node) ==
    CHOOSE s3 \in
        {log_state_change(
            [s1 EXCEPT
                !.messages = Append(@, AIMessage(tool_result)),
                !.result = tool_result,
                !.validation_status = acc.validation_status,
                !.tool_results = @ \o acc.tool_results,
                !.tool_execution_results = @ \o acc.results],
            node) : tool_result \in {Join(acc.results)}} : TRUE

\* tools_node: every call but the text2sql ones is executed, in order
tools_node ==
    /\ pc = "tools"
    /\ \E s1 \in {log_state_change(state, "tools_node")},
          regular_tools \in {RegularTools(state.tool_calls)} :
         IF regular_tools = <<>>
         THEN \E s2 \in {[s1 EXCEPT !.validation_status = "success"]} :
                /\ Step("tools", s2, after_tools_routing(s2))
                /\ UNCHANGED <<outcomes, filtered, gen_input>>
         ELSE \E outs \in OutsFor(regular_tools) :
              \E acc \in {ToolsLoop([results |-> <<>>, validation_status |-> "success",
                                     tool_results |-> <<>>],
                                    regular_tools, outs, MaxLines)} :
              \E s3 \in {BatchState(s1, acc, "tools_node")} :
                /\ Step("tools", s3, after_tools_routing(s3))
                /\ outcomes' = outcomes \o Executed(regular_tools, outs, "tools")
                /\ UNCHANGED <<filtered, gen_input>>

\* Text2SqlStep forwarding the call's args whatever they are, with no fall
\* back to the query of the run
Text2SqlStepArgsOnly(acc, c, out, k, query) ==
    LET r == execute_text2sql(c, c.args, out, k)
    IN  IF r.raised
        THEN [acc EXCEPT
                !.results = Append(@, <<Line(c.name, c.args, "error", 0, FALSE, FALSE)>>),
                !.validation_status = "tool_error"]
        ELSE [acc EXCEPT
                !.results = Append(@, Prefixed("text2sql", r.text)),
                !.tool_results = Append(@,
                    [tool_name |-> "text2sql", tool_args |-> c.args,
                     full_result |-> r.text, status |-> "success"])]

\* one pass of the loop of text2sql_node scanning its result for the
\* parameter-missing markers as tools_node does
Text2SqlStepScanning(acc, c, out, k, query) ==
    LET original_query == IF c.args = Str("") THEN query ELSE c.args
        r == execute_text2sql(c, original_query, out, k)
        vs == IF HasMarker(r.text) THEN "param_missing" ELSE acc.validation_status
    IN  IF r.raised
        THEN [acc EXCEPT
                !.results = Append(@, <<Line(c.name, c.args, "error", 0, FALSE, FALSE)>>),
                !.validation_status = "tool_error"]
        ELSE [acc EXCEPT
                !.results = Append(@, Prefixed("text2sql", r.text)),
                !.tool_results = Append(@,
                    [tool_name |-> "text2sql", tool_args |-> c.args,
                     full_result |-> r.text, status |-> "success"]),
                !.validation_status = vs]

\* one pass of the loop of text2sql_node over the call c
Text2SqlStep(acc, c, out, k, query) ==
    LET original_query == IF c.args = Str("") THEN query ELSE c.args
        r == execute_text2sql(c, original_query, out, k)
    IN  IF r.raised
        THEN [acc EXCEPT
                !.results = Append(@, <<Line(c.name, c.args, "error", 0, FALSE, FALSE)>>),
                !.validation_status = "tool_error"]
        ELSE [acc EXCEPT
                !.results = Append(@, Prefixed("text2sql", r.text)),
                !.tool_results = Append(@,
                    [tool_name |-> "text2sql", tool_args |-> c.args,
                     full_result |-> r.text, status |-> "success"])]

RECURSIVE Text2SqlLoop(_, _, _, _, _)
Text2SqlLoop(acc, calls, outs, k, query) ==
    IF calls = <<>> THEN acc
    ELSE Text2SqlLoop(Text2SqlStep(acc, Head(calls), Head(outs), k, query),
                      Tail(calls), Tail(outs), k, query)

\* text2sql_node starting its batch from the status the state already holds
text2sql_node_keeping_status ==
    /\ pc = "text2sql"
    /\ \E s1 \in {log_state_change(state, "text2sql_node")},
          text2sql_calls \in {Text2SqlCalls(state.tool_calls)} :
         IF text2sql_calls = <<>>
         THEN /\ Step("text2sql", s1, after_text2sql_routing(s1))
              /\ UNCHANGED <<outcomes, filtered, gen_input>>
         ELSE \E outs \in [1..Len(text2sql_calls) -> OutKinds] :
              \E acc \in {Text2SqlLoop([results |-> <<>>,
                                        validation_status |-> s1.validation_status,
                                        tool_results |-> <<>>],
                                       text2sql_calls, outs, MaxLines, QueryText)} :
              \E s3 \in {BatchState(s1, acc, "text2sql_node")} :
                /\ Step("text2sql", s3, after_text2sql_routing(s3))
                /\ outcomes' = outcomes \o Executed(text2sql_calls, outs, "text2sql")
                /\ UNCHANGED <<filtered, gen_input>>

\* text2sql_node: every text2sql call is handed to SQL synthesis, in order
text2sql_node ==
    /\ pc = "text2sql"
    /\ \E s1 \in {log_state_change(state, "text2sql_node")},
          text2sql_calls \in {Text2SqlCalls(state.tool_calls)} :
         IF text2sql_calls = <<>>
         THEN \E s2 \in {[s1 EXCEPT !.validation_status = "success"]} :
                /\ Step("text2sql", s2, after_text2sql_routing(s2))
                /\ UNCHANGED <<outcomes, filtered, gen_input>>
         ELSE \E outs \in [1..Len(text2sql_calls) -> OutKinds] :
              \E acc \in {Text2SqlLoop([results |-> <<>>, validation_status |-> "success",
                                        tool_results |-> <<>>],
                                       text2sql_calls, outs, MaxLines, QueryText)} :
              \E s3 \in {BatchState(s1, acc, "text2sql_node")} :
                /\ Step("text2sql", s3, after_text2sql_routing(s3))
                /\ outcomes' = outcomes \o Executed(text2sql_calls, outs, "text2sql")
                /\ UNCHANGED <<filtered, gen_input>>

\* filter_decision: the dummy node lambda state: state
filter_decision ==
    /\ pc = "filter_decision"
    /\ Step("filter_decision", state, should_filter_results(state))
    /\ UNCHANGED <<outcomes, filtered, gen_input>>

\* the first display limit the filter falls back on, by entity-line count
FilterCap == 100

\* "... 등 총 N개 종목이 있습니다."
Suffix(n) == Line("", Str(""), "suffix", n, FALSE, FALSE)

\* a filter that reads the "N개" numeral before the keywords
filter_result_count_first(q, result) ==
    LET lines == result
        stock_like_lines == SelectSeq(lines, LAMBDA l : l.ent)
        n == Len(stock_like_lines)
        should_limit == IF q.count >= 0 THEN TRUE
                        ELSE IF q.all THEN FALSE
                        ELSE n > FilterCap
        limit == IF q.count >= 0 THEN q.count
                 ELSE IF q.all THEN n
                 ELSE IF n > FilterCap THEN FilterCap
                 ELSE n
        header_lines == SelectSeq(lines,
                            LAMBDA l : \A j \in 1..n : stock_like_lines[j] # l)
    IN  IF should_limit /\ n > limit
        THEN header_lines \o SubSeq(stock_like_lines, 1, limit) \o <<Suffix(n)>>
        ELSE result

\* a filter that rebuilds the text from the entity lines alone
filter_result_no_headers(q, result) ==
    LET lines == result
        stock_like_lines == SelectSeq(lines, LAMBDA l : l.ent)
        n == Len(stock_like_lines)
        should_limit == IF q.all THEN FALSE
                        ELSE IF q.count >= 0 THEN TRUE
                        ELSE n > FilterCap
        limit == IF q.all THEN n
                 ELSE IF q.count >= 0 THEN q.count
                 ELSE IF n > FilterCap THEN FilterCap
                 ELSE n
    IN  IF should_limit /\ n > limit
        THEN SubSeq(stock_like_lines, 1, limit) \o <<Suffix(n)>>
        ELSE result

\* the text result_filter_node leaves in result, for query q
filter_result(q, result) ==
    LET lines == result
        stock_like_lines == SelectSeq(lines, LAMBDA l : l.ent)
        n == Len(stock_like_lines)
        should_limit == IF q.all THEN FALSE
                        ELSE IF q.count >= 0 THEN TRUE
                        ELSE n > FilterCap
        limit == IF q.all THEN n
                 ELSE IF q.count >= 0 THEN q.count
                 ELSE IF n > FilterCap THEN FilterCap
                 ELSE n
        header_lines == SelectSeq(lines,
                            LAMBDA l : \A j \in 1..n : stock_like_lines[j] # l)
    IN  IF should_limit /\ n > limit
        THEN header_lines \o SubSeq(stock_like_lines, 1, limit) \o <<Suffix(n)>>
        ELSE result

\* result_filter_node: a long listing is cut to the display limit
result_filter_node ==
    /\ pc = "result_filter"
    /\ LET s1 == log_state_change(state, "result_filter")
           s2 == [s1 EXCEPT !.result = filter_result(state.query, state.result)]
       IN  /\ Step("result_filter", log_state_change(s2, "result_filter"),
                   after_result_filter)
           /\ filtered' = [ran |-> TRUE, truncated |-> s2.result # state.result,
                           text |-> s2.result]
    /\ UNCHANGED <<outcomes, gen_input>>

\* clarifier_node also counting the request as a retry
clarifier_node_counting ==
    /\ pc = "clarifier"
    /\ Step("clarifier",
            [state EXCEPT !.messages = Append(@, AIMessage(ClarificationPrompt)),
                          !.result = ClarificationPrompt,
                          !.clarification_needed = TRUE,
                          !.retry_count = @ + 1],
            after_clarifier)
    /\ UNCHANGED <<outcomes, filtered, gen_input>>

\* clarifier_node: the run ends asking the user for the missing parameters
clarifier_node ==
    /\ pc = "clarifier"
    /\ Step("clarifier",
            [state EXCEPT !.messages = Append(@, AIMessage(ClarificationPrompt)),
                          !.result = ClarificationPrompt,
                          !.clarification_needed = TRUE],
            after_clarifier)
    /\ UNCHANGED <<outcomes, filtered, gen_input>>

\* generation_node preferring the result field to the per-call results
generation_input_result_first(st) ==
    IF st.result # EmptyText THEN st.result
    ELSE Join(st.tool_execution_results)

\* the result text generation_node puts into its prompt
generation_input(st) ==
    IF st.tool_execution_results # <<>> THEN Join(st.tool_execution_results)
    ELSE st.result

\* generation_node: the synthesizer turns the result text into the answer
generation_node ==
    /\ pc = "generation"
    /\ \/ /\ Step("generation",
                  [state EXCEPT !.messages = Append(@, AIMessage(FinalAnswer)),
                                !.result = FinalAnswer],
                  after_generation)
          /\ gen_input' = generation_input(state)
          /\ UNCHANGED <<outcomes, filtered>>
       \/ Raise("generation", "LLMError")

\* the exceptions a stage can raise, all of them subclasses of Exception
ExcKinds == {"LLMError", "TypeError"}

\* an except clause naming only the model client's error
search_catches_llm_only(e) == e = "LLMError"

\* except Exception as e
search_catches(e) == e \in ExcKinds

\* search returns the final answer, with the diagnostics in detailed mode
search_return ==
    /\ pc = "end"
    /\ pc' = "done"
    /\ returned' =
         [kind |-> IF return_detailed_info /\ enable_detailed_logging
                   THEN "record" ELSE "string",
          final_result |-> state.result,
          detail |-> "ok"]
    /\ UNCHANGED <<return_detailed_info, state, visited, outcomes, filtered, gen_input, exc>>
    /\ UNCHANGED <<agentVars, unitVars, sessionVars>>

\* search catches what graph.invoke raised and returns an error-shaped value
search_except ==
    /\ pc = "raised"
    /\ pc' = "done"
    /\ returned' =
         IF search_catches(exc)
         THEN [kind |-> IF return_detailed_info /\ enable_detailed_logging
                        THEN "record" ELSE "string",
               final_result |-> ErrorMsg,
               detail |-> "error"]
         ELSE [kind |-> "propagated", final_result |-> EmptyText, detail |-> exc]
    /\ UNCHANGED <<return_detailed_info, state, visited, outcomes, filtered, gen_input, exc>>
    /\ UNCHANGED <<agentVars, unitVars, sessionVars>>

\* no query result handed to the SQL formatter
NotFormatted == [df |-> [rows |-> <<>>, bad |-> 0], q |-> Str(""), done |-> FALSE,
                 raised |-> FALSE, text |-> EmptyText]
\* no query operation in progress, none made yet
NoDbOp == [log |-> <<>>, op |-> "none", conn |-> "none", left |-> 0]
NotParsed == [done |-> FALSE, raised |-> FALSE, calls |-> <<>>]
NotRouted == [done |-> FALSE, tools |-> "none", text2sql |-> "none"]
NoFilterInput == [q |-> [all |-> FALSE, count |-> -1], text |-> EmptyText]
NotFilteredYet == [done |-> FALSE, text |-> EmptyText]

(***************************************************************************)
(* The agent: one instance, any sequence of search calls.                  *)
(***************************************************************************)
Init ==
    /\ enable_detailed_logging \in BOOLEAN
    /\ pc = "idle"
    /\ return_detailed_info = FALSE
    /\ state = IdleState
    /\ visited = <<>>
    /\ outcomes = <<>>
    /\ filtered = NotFiltered
    /\ gen_input = EmptyText
    /\ exc = "none"
    /\ returned = NoReturn
    /\ content = <<>>
    /\ parsed = NotParsed
    /\ rin = IdleState
    /\ rout = NotRouted
    /\ fin = NoFilterInput
    /\ fout = NotFilteredYet
    /\ xin = NoExtractInput
    /\ xout = NotHandled
    /\ prior = "none"
    /\ db = NoDbOp
    /\ fmt = NotFormatted

Next ==
    \/ \E q \in Queries, d \in BOOLEAN : search(q, d)
    \/ agent_node
    \/ parse_node
    \/ tools_node
    \/ text2sql_node
    \/ filter_decision
    \/ result_filter_node
    \/ clarifier_node
    \/ generation_node
    \/ search_return
    \/ search_except

\* the steps of a run in progress: graph.invoke runs every stage it reaches
RunStep ==
    \/ agent_node
    \/ parse_node
    \/ tools_node
    \/ text2sql_node
    \/ filter_decision
    \/ result_filter_node
    \/ clarifier_node
    \/ generation_node
    \/ search_return
    \/ search_except

Spec == Init /\ [][Next]_vars

\* a run, once started, is carried through: search is synchronous
FairSpec == Spec /\ WF_vars(RunStep)

(***************************************************************************)
(* The call parser on its own: any reply of up to MaxSegs segments.        *)
(***************************************************************************)
ParseSegments ==
    {sg \in Segments :
        sg.obj.k = "call" =>
            \/ /\ sg.obj.name = "get_stock_price"
               /\ sg.obj.args \in {Str("a"), BraceStr, DictBoth, DictOther, ListVal}
            \/ /\ sg.obj.name = "text2sql"
               /\ sg.obj.args = Str("a")}

InitParser ==
    /\ enable_detailed_logging = TRUE
    /\ pc = "idle"
    /\ return_detailed_info = FALSE
    /\ state = IdleState
    /\ visited = <<>>
    /\ outcomes = <<>>
    /\ filtered = NotFiltered
    /\ gen_input = EmptyText
    /\ exc = "none"
    /\ returned = NoReturn
    /\ content \in SeqsUpTo(ParseSegments, MaxSegs)
    /\ parsed = NotParsed
    /\ rin = IdleState
    /\ rout = NotRouted
    /\ fin = NoFilterInput
    /\ fout = NotFilteredYet
    /\ xin = NoExtractInput
    /\ xout = NotHandled
    /\ prior = "none"
    /\ db = NoDbOp
    /\ fmt = NotFormatted

\* _parse_tool_calls(content)
ParseContent ==
    /\ ~parsed.done
    /\ parsed' = [done |-> TRUE,
                  raised |-> parse_tool_calls(content).raised,
                  calls |-> parse_tool_calls(content).calls]
    /\ UNCHANGED <<content, agentVars, runVars, routeVars, filterVars, extractVars, sessionVars,
                 dbVars, fmtVars>>

NextParser == ParseContent

ParserSpec == InitParser /\ [][NextParser]_vars

(***************************************************************************)
(* The routing functions on their own: any call list, status and retry     *)
(* count.                                                                  *)
(***************************************************************************)
Statuses == {"pending", "success", "param_missing", "tool_error"}

RouteCalls ==
    SeqsUpTo({Call("get_stock_price", Str("a")), Call("text2sql", Str("a"))},
             MaxRouteCalls)

InitRoute ==
    /\ enable_detailed_logging = TRUE
    /\ pc = "idle"
    /\ return_detailed_info = FALSE
    /\ state = IdleState
    /\ visited = <<>>
    /\ outcomes = <<>>
    /\ filtered = NotFiltered
    /\ gen_input = EmptyText
    /\ exc = "none"
    /\ returned = NoReturn
    /\ content = <<>>
    /\ parsed = NotParsed
    /\ \E calls \in RouteCalls, vs \in Statuses, rc \in 0..MaxRetry :
          rin = [IdleState EXCEPT !.tool_calls = calls, !.validation_status = vs,
                                  !.retry_count = rc]
    /\ rout = NotRouted
    /\ fin = NoFilterInput
    /\ fout = NotFilteredYet
    /\ xin = NoExtractInput
    /\ xout = NotHandled
    /\ prior = "none"
    /\ db = NoDbOp
    /\ fmt = NotFormatted

\* after_tools_routing(rin) and after_text2sql_routing(rin)
Route ==
    /\ ~rout.done
    /\ rout' = [done |-> TRUE, tools |-> after_tools_routing(rin),
                text2sql |-> after_text2sql_routing(rin)]
    /\ UNCHANGED <<rin, agentVars, runVars, parserVars, filterVars, extractVars, sessionVars,
                 dbVars, fmtVars>>

NextRoute == Route

RouteSpec == InitRoute /\ [][NextRoute]_vars

(***************************************************************************)
(* Properties.                                                             *)
(***************************************************************************)
Range(f) == {f[i] : i \in DOMAIN f}
Last(sq) == sq[Len(sq)]
\* the place of the first occurrence of stage n among the visited stages
IndexOf(n) == CHOOSE i \in 1..Len(visited) : visited[i] = n /\ \A j \in 1..(i - 1) : visited[j] # n

AnsweredByGenerate ==
    /\ returned.detail = "ok"
    /\ returned.final_result = FinalAnswer
    /\ Last(visited) = "generation"
AnsweredByClarify ==
    /\ returned.detail = "ok"
    /\ returned.final_result = ClarificationPrompt
    /\ Last(visited) = "clarifier"
ErrorCaught ==
    /\ returned.detail = "error"
    /\ returned.final_result = ErrorMsg

\* C1: when a search call has completed, exactly one of these holds: the
\* answer returned was written by the generation stage, it was written by the
\* clarifier stage, or a top-level error was caught; and the run did not
\* visit both the clarifier and the generation stage.
C1_ExactlyOneOutcome ==
    pc = "done" =>
        /\ Cardinality({o \in {"generate", "clarify", "error"} :
              \/ o = "generate" /\ AnsweredByGenerate
              \/ o = "clarify" /\ AnsweredByClarify
              \/ o = "error" /\ ErrorCaught}) = 1
        /\ ~({"clarifier", "generation"} \subseteq Range(visited))

\* a run that ended in the clarifier
C1_Witness == pc = "done" /\ AnsweredByClarify /\ "tools" \in Range(visited)

\* C2: when a stage of the run raised, the search call still returns to its
\* caller: what it returns is the error message, as a string or, only in
\* detailed mode, as a record; the exception is never passed on.
C2_SearchNeverPropagates ==
    (pc = "done" /\ exc # "none") =>
        /\ returned.kind \in {"string", "record"}
        /\ returned.final_result = ErrorMsg
        /\ returned.detail = "error"
        /\ (returned.kind = "record" => return_detailed_info)

\* the parse stage raised and search returned an error record
C2_Witness ==
    /\ pc = "done"
    /\ exc = "TypeError"
    /\ Last(visited) = "parse"
    /\ returned.kind = "record"

\* C3: the routing function after execute_structured and the one after
\* execute_sql choose clarify exactly when validation_status is param_missing
\* and retry_count < 2; with retry_count >= 2 a param_missing state goes on
\* to execute_sql or filter_decide.
C3_ClarifyGate ==
    rout.done =>
        LET gate == rin.validation_status = "param_missing" /\ rin.retry_count < 2
        IN  /\ (rout.tools = "clarifier") <=> gate
            /\ (rout.text2sql = "clarifier") <=> gate
            /\ (rin.validation_status = "param_missing" /\ rin.retry_count >= 2) =>
                  /\ rout.tools \in {"text2sql", "filter_decision"}
                  /\ rout.text2sql = "filter_decision"

\* a param_missing state with retry_count 2 that went on to execute_sql
C3_Witness ==
    /\ rout.done
    /\ rin.validation_status = "param_missing"
    /\ rin.retry_count = 2
    /\ rout.tools = "text2sql"

\* the stage the parsed call list calls for
StageForCalls(calls) ==
    LET ordinary == {i \in 1..Len(calls) : calls[i].name # "text2sql"}
    IN  IF Len(calls) = 0 THEN "generation"
        ELSE IF Cardinality(ordinary) >= 1 THEN "tools"
        ELSE "text2sql"

\* C4: the stage that follows parse is generate for an empty call list,
\* execute_structured for a list with at least one ordinary call and
\* execute_sql for a list of text2sql calls only.
C4_StageAfterParse ==
    \A i \in 1..Len(visited) :
        (visited[i] = "parse" /\ ~(i = Len(visited) /\ exc = "TypeError")) =>
            LET next == IF i < Len(visited) THEN visited[i + 1] ELSE pc
            IN  next = StageForCalls(state.tool_calls)

\* a mixed list, text2sql call first, went to execute_structured
C4_Witness ==
    /\ Len(visited) >= 3
    /\ visited[2] = "parse"
    /\ visited[3] = "tools"
    /\ Len(state.tool_calls) >= 2
    /\ state.tool_calls[1].name = "text2sql"

Mixed(calls) == has_text2sql(calls) /\ has_regular_tools(calls)

\* the generation stage has run and handed gen_input to the synthesizer
GenerateActed ==
    /\ visited # <<>>
    /\ Last(visited) = "generation"
    /\ pc \in {"end", "done"}
    /\ exc = "none"

\* the lines of a text that report on call c
LinesOf(text, c) == {i \in 1..Len(text) : text[i].name = c.name /\ text[i].args = c.args}

\* C5: in a run whose parsed call list holds an ordinary call and a text2sql
\* call, execute_sql is visited only after execute_structured; and when the
\* run gets to generate (its structured batch did not end in param_missing),
\* both stages were visited and the text handed to the synthesizer holds the
\* result of every ordinary call before the result of every text2sql call.
C5_StructuredBeforeSql ==
    Mixed(state.tool_calls) =>
        /\ "text2sql" \in Range(visited) =>
              /\ "tools" \in Range(visited)
              /\ IndexOf("tools") < IndexOf("text2sql")
        /\ GenerateActed =>
              /\ {"tools", "text2sql"} \subseteq Range(visited)
              /\ \A a, b \in 1..Len(state.tool_calls) :
                    (state.tool_calls[a].name # "text2sql"
                        /\ state.tool_calls[b].name = "text2sql") =>
                      /\ LinesOf(gen_input, state.tool_calls[a]) # {}
                      /\ LinesOf(gen_input, state.tool_calls[b]) # {}
                      /\ \A i \in LinesOf(gen_input, state.tool_calls[a]),
                            j \in LinesOf(gen_input, state.tool_calls[b]) : i < j

\* a completed run of a list whose text2sql call was parsed first
C5_Witness ==
    /\ pc = "done"
    /\ GenerateActed
    /\ Len(state.tool_calls) = 3
    /\ state.tool_calls[1].name = "text2sql"
    /\ state.tool_calls[2].name = "search_price"
    /\ state.tool_calls[3].name = "get_stock_price"

\* call i of the structured batch did not fault
NonFaulting(i) ==
    /\ outcomes[i].call.name \in tool_mappings
    /\ outcomes[i].out # "raise"

\* C6: once execute_structured has run a batch of n ordinary calls, the
\* result list holds n entries for them, the i-th about the i-th call, and
\* the entry of every call that did not fault is that tool's own output,
\* whichever of the other calls faulted.
C6_FaultIsolation ==
    "tools" \in Range(visited) =>
        LET reg == RegularTools(state.tool_calls)
            n == Len(reg)
            ter == state.tool_execution_results
        IN  /\ Len(ter) >= n
            /\ "text2sql" \notin Range(visited) => Len(ter) = n
            /\ Len(outcomes) >= n
            /\ \A i \in 1..n :
                  /\ outcomes[i].call = reg[i]
                  /\ ter[i] # <<>>
                  /\ \A j \in 1..Len(ter[i]) :
                        ter[i][j].name = reg[i].name /\ ter[i][j].args = reg[i].args
                  /\ NonFaulting(i) =>
                        ter[i] = Prefixed(reg[i].name,
                                    IF outcomes[i].out = "ok"
                                    THEN NormalOutput(reg[i], MaxLines)
                                    ELSE MarkerOutput(reg[i]))

\* a batch of three whose second call names no registered tool
C6_Witness ==
    /\ visited # <<>>
    /\ Last(visited) = "tools"
    /\ Len(outcomes) = 3
    /\ outcomes[1].call.name = "get_stock_price" /\ outcomes[1].out = "raise"
    /\ outcomes[2].call.name = "no_such_tool"
    /\ outcomes[3].call.name = "search_price" /\ outcomes[3].out = "ok"
    /\ Len(state.tool_execution_results) = 3

\* C7: when the handler of the last call of a structured batch raised, the
\* batch leaves validation_status tool_error and the call's entry is an
\* inline error string.
C7_HandlerRaiseIsToolError ==
    (/\ visited # <<>>
     /\ Last(visited) = "tools"
     /\ outcomes # <<>>
     /\ Last(outcomes).call.name \in tool_mappings
     /\ Last(outcomes).out = "raise") =>
        /\ state.validation_status = "tool_error"
        /\ Last(state.tool_execution_results)[1].kind \in {"error", "exec_error"}

\* an execution stage has just ended with validation_status tool_error
ToolErrorStage ==
    /\ visited # <<>>
    /\ Last(visited) \in {"tools", "text2sql"}
    /\ state.validation_status = "tool_error"

\* the two routing functions choose the same stage for every status that is
\* not param_missing
StatusBlind ==
    \A s \in Statuses \ {"param_missing"} :
        /\ after_tools_routing([state EXCEPT !.validation_status = s])
             = after_tools_routing([state EXCEPT !.validation_status = "success"])
        /\ after_text2sql_routing([state EXCEPT !.validation_status = s])
             = after_text2sql_routing([state EXCEPT !.validation_status = "success"])

\* C8: a run whose execution stage ended with tool_error is not sent to the
\* clarifier from there and goes on to reach the generation stage; and the
\* routing functions tell no two statuses apart but param_missing.
C8_ToolErrorReachesGenerate ==
    /\ [](ToolErrorStage => pc # "clarifier")
    /\ [](ToolErrorStage => <>(visited # <<>> /\ Last(visited) = "generation"))
    /\ []StatusBlind

\* a run that met an unregistered tool name and got to generate
C8_Witness ==
    /\ pc = "done"
    /\ GenerateActed
    /\ state.validation_status = "tool_error"
    /\ \E i \in 1..Len(outcomes) : outcomes[i].call.name = "no_such_tool"
    /\ "clarifier" \notin Range(visited)

\* C9: when the filter stage truncated the result text, the text the
\* generation stage hands to the synthesizer is the truncated text.
C9_GenerateUsesTruncatedText ==
    (GenerateActed /\ filtered.truncated) => gen_input = filtered.text

\* C10: the call parser returns a sequence of records for every reply and
\* never raises.
C10_ParserNeverRaises == parsed.done => ~parsed.raised

(***************************************************************************)
(* The parser's output against the records its passes collected.           *)
(***************************************************************************)
\* the positions in all of the records that no earlier position holds
FirstOccurrences(all) ==
    {i \in 1..Len(all) : \A j \in 1..(i - 1) : all[j] # all[i]}

\* the parser returned a list (its de-duplication did not raise)
ParserReturned == parsed.done /\ ~parsed.raised

\* C11: the list the parser returns holds no two records with the same name
\* and args, its order is the order of first occurrence among the records
\* collected by passes 1 to 5, and a record collected more than once (matched
\* by more than one pass) appears exactly once.
C11_UniqueInFirstOccurrenceOrder ==
    ParserReturned =>
        \A all \in {Collected(content)} :
            \A first \in {FirstOccurrences(all)} :
                /\ \A i, j \in 1..Len(parsed.calls) :
                       parsed.calls[i] = parsed.calls[j] => i = j
                /\ Len(parsed.calls) = Cardinality(first)
                /\ \A i \in first :
                       parsed.calls[Cardinality({j \in first : j <= i})] = all[i]
                /\ \A i \in 1..Len(all) :
                       Cardinality({k \in 1..Len(parsed.calls) :
                                       parsed.calls[k] = all[i]}) = 1

\* a reply with two different calls, each matched by two passes: four
\* records collected, two returned
C11_Witness ==
    /\ ParserReturned
    /\ Len(parsed.calls) = 2
    /\ \E i, j, k \in 1..Len(Collected(content)) :
           /\ i < j /\ j < k
           /\ Collected(content)[i] = Collected(content)[k]
           /\ Collected(content)[i] # Collected(content)[j]

\* the reply is one labeled call (TOOL_CALL: and a JSON object with name and
\* a string-valued args) between prose
OneLabeledCall ==
    /\ Len(content) = 1
    /\ content[1].wrap = "label"
    /\ content[1].obj.k = "call"
    /\ content[1].obj.args.t = "str"

\* C12: for a reply holding a well-formed labeled call, the parser returns
\* exactly one record, equal to that call, whatever characters the args
\* string holds.
C12_LabeledCallParsedExactly ==
    (parsed.done /\ OneLabeledCall) =>
        /\ ~parsed.raised
        /\ parsed.calls = <<Call(content[1].obj.name, content[1].obj.args)>>

\* the reply is one call, name before args, whose args is a JSON object,
\* written in one of the conventions: labeled, fenced, backtick or bare
OneObjectArgsCall ==
    /\ Len(content) = 1
    /\ content[1].wrap \in {"label", "fence", "tick", "bare"}
    /\ content[1].obj.k = "call"
    /\ content[1].obj.nameFirst
    /\ content[1].obj.args.t = "dict"

\* C13: in every convention an object-valued args is emitted as a single
\* string (the question built from stock name and date when both are there),
\* and no record the parser returns has a non-string args.
C13_ObjectArgsEmittedAsString ==
    (parsed.done /\ OneObjectArgsCall) =>
        /\ ~parsed.raised
        /\ \E i \in 1..Len(parsed.calls) :
               parsed.calls[i] =
                   Call(content[1].obj.name, FlattenArgs(content[1].obj.args))
        /\ \A i \in 1..Len(parsed.calls) : parsed.calls[i].args.t = "str"

(***************************************************************************)
(* The result filter on its own: a query and a listing of header lines     *)
(* and entity lines.                                                       *)
(***************************************************************************)
\* the "N개" numerals tried (-1: the query has none)
FilterCounts == {-1, 0, 2, 120}
FilterQueries == [all : BOOLEAN, count : FilterCounts]

\* the entity-line counts tried: few, around the cap, and many
EntityCounts ==
    (0..3) \cup ((FilterCap - 1)..(FilterCap + 1)) \cup {120, 150, MaxEntities}

\* a line the stock patterns match ("1. name (code)") and one they do not
EntityLine(i) == Line("search_price", Str("a"), "row", i, TRUE, FALSE)
HeaderLine(i) == Line("search_price", Str("a"), "head", i, FALSE, FALSE)

\* a listing of h header lines and n entity lines, the headers above or
\* below the entity lines
Listing(h, n, above) ==
    IF above
    THEN [i \in 1..h |-> HeaderLine(i)] \o [i \in 1..n |-> EntityLine(i)]
    ELSE [i \in 1..n |-> EntityLine(i)] \o [i \in 1..h |-> HeaderLine(i)]

FilterTexts ==
    {Listing(h, n, above) : h \in 0..MaxHeaders, n \in EntityCounts, above \in BOOLEAN}

InitFilter ==
    /\ enable_detailed_logging = TRUE
    /\ pc = "idle"
    /\ return_detailed_info = FALSE
    /\ state = IdleState
    /\ visited = <<>>
    /\ outcomes = <<>>
    /\ filtered = NotFiltered
    /\ gen_input = EmptyText
    /\ exc = "none"
    /\ returned = NoReturn
    /\ content = <<>>
    /\ parsed = NotParsed
    /\ rin = IdleState
    /\ rout = NotRouted
    /\ fin \in [q : FilterQueries, text : FilterTexts]
    /\ fout = NotFilteredYet
    /\ xin = NoExtractInput
    /\ xout = NotHandled
    /\ prior = "none"
    /\ db = NoDbOp
    /\ fmt = NotFormatted

\* result_filter_node's rewriting of state["result"] for state["query"]
Filter ==
    /\ ~fout.done
    /\ fout' = [done |-> TRUE, text |-> filter_result(fin.q, fin.text)]
    /\ UNCHANGED <<fin, agentVars, runVars, parserVars, routeVars, extractVars, sessionVars,
                 dbVars, fmtVars>>

NextFilter == Filter

FilterSpec == InitFilter /\ [][NextFilter]_vars

\* the lines of a text the stock patterns match, and the others
EntityLines(text) == SelectSeq(text, LAMBDA l : l.ent)
HeaderLines(text) == SelectSeq(text, LAMBDA l : ~l.ent /\ l.kind # "suffix")
SuffixLines(text) == SelectSeq(text, LAMBDA l : l.kind = "suffix")

\* C14: the display limit is chosen by priority. A keyword for all: no
\* limit, the text is returned as it is, numeral or not. Otherwise a numeral
\* N: limit N. Otherwise more than 100 entity lines: limit 100. Otherwise no
\* limit.
C14_LimitPriority ==
    fout.done =>
        \A n \in {Len(EntityLines(fin.text))} :
            \A shown \in {Len(EntityLines(fout.text))} :
                /\ fin.q.all => fout.text = fin.text
                /\ (~fin.q.all /\ fin.q.count >= 0) =>
                       shown = IF fin.q.count < n THEN fin.q.count ELSE n
                /\ (~fin.q.all /\ fin.q.count < 0 /\ n > 100) => shown = 100
                /\ (~fin.q.all /\ fin.q.count < 0 /\ n <= 100) =>
                       fout.text = fin.text

\* 150 entity lines, a query with a keyword for all and the numeral 2: the
\* text comes back as it went in
C14_Witness ==
    /\ fout.done
    /\ fin.q.all
    /\ fin.q.count = 2
    /\ Len(EntityLines(fin.text)) = 150
    /\ fout.text = fin.text

\* the limit the filter is to apply to n entity lines for query q
DisplayLimit(q, n) ==
    IF q.all THEN n
    ELSE IF q.count >= 0 THEN q.count
    ELSE IF n > 100 THEN 100
    ELSE n

\* C15: with a limit L below the entity-line count n, the output is every
\* header line, the first L entity lines in their order, and one suffix
\* giving n; with L >= n the text is unchanged and has no suffix. 150 entity
\* lines, no keyword and no numeral: 100 entity lines and the suffix.
C15_TruncatedShape ==
    fout.done =>
        \A ents \in {EntityLines(fin.text)} :
            \A L \in {DisplayLimit(fin.q, Len(ents))} :
                /\ L < Len(ents) =>
                       /\ HeaderLines(fout.text) = HeaderLines(fin.text)
                       /\ EntityLines(fout.text) = SubSeq(ents, 1, L)
                       /\ SuffixLines(fout.text) = <<Suffix(Len(ents))>>
                       /\ Len(fout.text) = Len(HeaderLines(fin.text)) + L + 1
                /\ L >= Len(ents) =>
                       /\ fout.text = fin.text
                       /\ SuffixLines(fout.text) = <<>>
                /\ (Len(ents) = 150 /\ ~fin.q.all /\ fin.q.count < 0) =>
                       /\ Len(EntityLines(fout.text)) = 100
                       /\ Len(SuffixLines(fout.text)) = 1

\* 150 entity lines under two header lines, no keyword and no numeral: two
\* header lines, 100 entity lines and the suffix come back
C15_Witness ==
    /\ fout.done
    /\ ~fin.q.all
    /\ fin.q.count = -1
    /\ Len(EntityLines(fin.text)) = 150
    /\ Len(HeaderLines(fin.text)) = 2
    /\ Len(fout.text) = 103
    /\ fout.text[Len(fout.text)] = Suffix(150)

\* the stage the run entered after the i-th stage it visited
StageAfter(i) == IF i < Len(visited) THEN visited[i + 1] ELSE pc

\* some executed call names a tool whose listings need filtering
ExecutedNeedsFiltering ==
    \E i \in 1..Len(outcomes) : outcomes[i].call.name \in TOOLS_NEED_FILTERING

\* C16: after filter_decision the run enters result_filter if and only if
\* some executed call's tool is in the needs-filtering set, and generation
\* otherwise; result_filter is never visited when every executed call is
\* outside the set; result_filter is always followed by generation.
C16_FilterIffNeeded ==
    /\ \A i \in 1..Len(visited) :
           /\ visited[i] = "filter_decision" =>
                  StageAfter(i) = IF ExecutedNeedsFiltering THEN "result_filter"
                                                            ELSE "generation"
           /\ visited[i] = "result_filter" => StageAfter(i) = "generation"
    /\ "result_filter" \in Range(visited) => ExecutedNeedsFiltering

\* a run that executed a call inside the set and one outside it, passed
\* through result_filter and finished in generation
C16_Witness ==
    /\ GenerateActed
    /\ "result_filter" \in Range(visited)
    /\ \E i \in 1..Len(outcomes) : outcomes[i].call.name \in TOOLS_NEED_FILTERING
    /\ \E i \in 1..Len(outcomes) : outcomes[i].call.name \notin TOOLS_NEED_FILTERING

\* the result entry reports on the call c: it carries the call's name and
\* the args it was run with (the query, for a text2sql call without args)
Reports(entry, c) ==
    /\ entry[1].name = c.name
    /\ entry[1].args = IF c.name = "text2sql" /\ c.args = Str("") THEN QueryText
                       ELSE c.args

\* the order in which the stages execute the calls of a parsed list: the
\* ordinary calls, then the text2sql calls
DispatchOrder(calls) == RegularTools(calls) \o Text2SqlCalls(calls)

\* the generation stage joined the accumulated results as they stand
GenerateJoinsResults ==
    (GenerateActed /\ state.tool_execution_results # <<>>) =>
        gen_input = Join(state.tool_execution_results)

\* C17 (as stated): at every point of a run the accumulated execution
\* results are in the same relative order as their originating calls in the
\* parsed call list, and generation joins them in that order.
C17_ResultsInParsedOrder ==
    /\ \A i, j \in 1..Len(state.tool_execution_results) :
           i < j =>
               \E p, q \in 1..Len(state.tool_calls) :
                   /\ p < q
                   /\ Reports(state.tool_execution_results[i], state.tool_calls[p])
                   /\ Reports(state.tool_execution_results[j], state.tool_calls[q])
    /\ GenerateJoinsResults

\* C17 (amended): at every point of a run the accumulated execution results
\* are in the order their calls were dispatched, the ordinary calls in
\* parsed order and then the text2sql calls in parsed order, and generation
\* joins them in that order.
C17_ResultsInDispatchOrder ==
    /\ \A order \in {DispatchOrder(state.tool_calls)} :
           /\ Len(state.tool_execution_results) <= Len(order)
           /\ \A i \in 1..Len(state.tool_execution_results) :
                  Reports(state.tool_execution_results[i], order[i])
    /\ GenerateJoinsResults

\* a run whose parsed list begins with a text2sql call and holds an ordinary
\* call: both were executed and generation has joined the results
C17_Witness ==
    /\ GenerateActed
    /\ Len(state.tool_calls) >= 2
    /\ state.tool_calls[1].name = "text2sql"
    /\ has_regular_tools(state.tool_calls)
    /\ Len(state.tool_execution_results) = Len(state.tool_calls)
    /\ gen_input = Join(state.tool_execution_results)

\* what the first line of the i-th accumulated result entry is
EntryKind(i) == state.tool_execution_results[i][1].kind

\* C18: execute_text2sql never raises into text2sql_node. A failure inside
\* it comes back as the error text of that call: the call's entry is that
\* text, the except branch of the stage is not taken, the stage does not
\* raise, and the entries of the other calls are what their own execution
\* gave.
C18_Text2SqlFailureIsText ==
    /\ \A i \in 1..Len(outcomes) :
           /\ i <= Len(state.tool_execution_results)
           /\ outcomes[i].call.name = "text2sql" =>
                  /\ EntryKind(i) # "error"
                  /\ EntryKind(i) = "sql_error" <=> outcomes[i].out = "raise"
           /\ outcomes[i].call.name # "text2sql" => EntryKind(i) # "sql_error"
    /\ (pc = "raised" /\ visited # <<>>) => Last(visited) # "text2sql"
    /\ \A i \in 1..Len(state.tool_results) :
           state.tool_results[i].tool_name = "text2sql" =>
               state.tool_results[i].status = "success"

\* a run in which SQL synthesis failed for the text2sql call after an
\* ordinary call had succeeded: generation ran with both entries
C18_Witness ==
    /\ GenerateActed
    /\ \E i, j \in 1..Len(outcomes) :
           /\ outcomes[i].call.name = "text2sql"
           /\ outcomes[i].out = "raise"
           /\ EntryKind(i) = "sql_error"
           /\ outcomes[j].call.name = "get_stock_price"
           /\ outcomes[j].out = "ok"
           /\ EntryKind(j) = "result"

(***************************************************************************)
(* The parameter extractor and its handlers on their own.                  *)
(***************************************************************************)
InitExtract ==
    /\ enable_detailed_logging = TRUE
    /\ pc = "idle"
    /\ return_detailed_info = FALSE
    /\ state = IdleState
    /\ visited = <<>>
    /\ outcomes = <<>>
    /\ filtered = NotFiltered
    /\ gen_input = EmptyText
    /\ exc = "none"
    /\ returned = NoReturn
    /\ content = <<>>
    /\ parsed = NotParsed
    /\ rin = IdleState
    /\ rout = NotRouted
    /\ fin = NoFilterInput
    /\ fout = NotFilteredYet
    /\ xin \in ExtractInputs
    /\ xout = NotHandled
    /\ prior = "none"
    /\ db = NoDbOp
    /\ fmt = NotFormatted

\* the handler xin.handler runs on a query
Handle ==
    /\ ~xout.done
    /\ xout' = [done |-> TRUE, params |-> handle(xin).params,
                raised |-> handle(xin).raised, call |-> handle(xin).call]
    /\ UNCHANGED <<xin, agentVars, runVars, parserVars, routeVars, filterVars, sessionVars,
                 dbVars, fmtVars>>

NextExtract == Handle

ExtractSpec == InitExtract /\ [][NextExtract]_vars

\* the model call failed, or no JSON can be decoded from its reply
ExtractionFailed ==
    xin.llm = "raise" \/ xin.reply.shape \in {"broken", "split", "text"}

\* the arguments a handler passes on when every field takes its default
DefaultArgs(h) ==
    IF h = "get_stock_price" THEN <<"005930", "2025-09-15">>
    ELSE <<"2025-09-15", "None", "None">>

\* C19: _extract_parameters never raises; when the model call fails or no
\* JSON can be decoded from the reply it returns the empty mapping, and the
\* handler then uses its default for every field it reads.
C19_ExtractorNeverRaises ==
    xout.done =>
        /\ ~xout.params.raised
        /\ ExtractionFailed =>
               /\ xout.params.value = DictValue(EmptyMapping)
               /\ ~xout.raised
               /\ xout.call.args = DefaultArgs(xin.handler)

\* the model call raised inside the stock-price handler: the query function
\* was called with the default ticker and the default date
C19_Witness ==
    /\ xout.done
    /\ xin.llm = "raise"
    /\ xin.handler = "get_stock_price"
    /\ xout.call = [fn |-> "get_stock_price_info", args |-> <<"005930", "2025-09-15">>]

(***************************************************************************)
(* One agent instance over several search calls, with a record of what     *)
(* the run before the present one left behind.                             *)
(***************************************************************************)
\* the finished run wrote every field a run can write: a conversation,
\* calls, results, a validation status and the clarification flag
WroteEverything(st) ==
    /\ st.messages # <<>>
    /\ st.tool_calls # <<>>
    /\ st.tool_results # <<>>
    /\ st.tool_execution_results # <<>>
    /\ st.validation_status # "pending"
    /\ st.clarification_needed

\* search, the record noting what the state at hand holds when it is called
search_recorded(q, d) ==
    /\ StartRun(q, d)
    /\ prior' = IF pc = "idle" THEN "none"
                ELSE IF WroteEverything(state) THEN "dirty"
                ELSE "clean"

NextSession ==
    \/ \E q \in Queries, d \in BOOLEAN : search_recorded(q, d)
    \/ agent_node
    \/ parse_node
    \/ tools_node
    \/ text2sql_node
    \/ filter_decision
    \/ result_filter_node
    \/ clarifier_node
    \/ generation_node
    \/ search_return
    \/ search_except

SessionSpec == Init /\ [][NextSession]_vars

\* search has built the state of a run and no stage has run yet
RunStarting == pc = "agent"

\* C20: whatever search calls came before on the same instance, a run
\* starts from retry_count 0, validation_status pending, clarification_needed
\* false, an empty conversation and empty call and result lists: nothing an
\* earlier run wrote to its state is in the state of a later run.
C20_RunStartsFresh ==
    RunStarting =>
        /\ state.retry_count = 0
        /\ state.validation_status = "pending"
        /\ state.clarification_needed = FALSE
        /\ state.messages = <<>>
        /\ state.tool_calls = <<>>
        /\ state.tool_results = <<>>
        /\ state.tool_execution_results = <<>>
        /\ state.result = EmptyText
        /\ state.node_traces = <<>>
        /\ state.iterations = 0
        /\ visited = <<>>
        /\ outcomes = <<>>

\* a run starting after a run that ended in a clarification request with
\* calls and results on record
C20_Witness ==
    /\ RunStarting
    /\ prior = "dirty"
    /\ state.messages = <<>>
    /\ state.tool_execution_results = <<>>

(***************************************************************************)
(* C21: the graph of _create_graph has no cycle and every run ends.        *)
(***************************************************************************)
\* no stage appears twice among the stages the run has been through
NoStageTwice == \A i, j \in 1..Len(visited) : visited[i] = visited[j] => i = j

\* the run has got to the clarifier, to the generation stage, or to the
\* except clause of search
RunEnded ==
    \/ pc = "raised"
    \/ visited # <<>> /\ Last(visited) \in {"clarifier", "generation"}

\* C21: when every model, tool and database call returns or raises, a run
\* that has started eventually reaches the clarifier, the generation stage or
\* the except clause of search, and it goes through no stage more than once.
C21_RunEndsNoStageTwice ==
    /\ []NoStageTwice
    /\ (RunStarting ~> RunEnded)

\* a finished run that went down the longest path of the graph
C21_Witness ==
    /\ pc = "done"
    /\ visited = <<"agent", "parse", "tools", "text2sql", "filter_decision",
                   "result_filter", "generation">>

(***************************************************************************)
(* Two runs of one query, the second by an agent constructed with the      *)
(* other setting of enable_detailed_logging and given the responses the    *)
(* first was given.                                                        *)
(***************************************************************************)
\* the reply agent_node was given: the content of the AIMessage it appended
\* behind the HumanMessage of the query (none when the call raised)
AgentReply(msgs) == IF Len(msgs) >= 2 THEN msgs[2].content ELSE <<>>

\* what a finished run was given and what it came to
RunRecord ==
    [reply |-> AgentReply(state.messages),
     outcomes |-> outcomes,
     raised |-> IF exc = "none" THEN "none" ELSE Last(visited),
     visited |-> visited,
     final_result |-> returned.final_result,
     validation_status |-> state.validation_status,
     clarification_needed |-> state.clarification_needed]

\* the stage just run was given what the first run gave it: the same reply of
\* the proposing model, the same output for the same call, a raise where the
\* first run's call raised
SameResponses ==
    \A f \in {prior.first} :
        /\ \A i \in 1..Len(outcomes) :
             (i <= Len(f.outcomes) /\ outcomes[i].call = f.outcomes[i].call)
                => outcomes[i].out = f.outcomes[i].out
        /\ Last(visited) \in Range(f.visited) =>
             /\ (pc = "raised") = (f.raised = Last(visited))
             /\ (Last(visited) = "agent" /\ pc # "raised")
                  => AgentReply(state.messages) = f.reply

Replayed == prior.phase = 2 => SameResponses

\* search on the first agent
first_search(q, d) ==
    /\ pc = "idle"
    /\ StartRun(q, d)
    /\ prior' = [phase |-> 1]

\* the same search call on the second agent, whose enable_detailed_logging
\* is the negation of the first's
second_search ==
    /\ pc = "done"
    /\ prior.phase = 1
    /\ prior' = [phase |-> 2, first |-> RunRecord]
    /\ enable_detailed_logging' = ~enable_detailed_logging
    /\ pc' = "agent"
    /\ state' = initial_state(state.query)
    /\ visited' = <<>>
    /\ outcomes' = <<>>
    /\ filtered' = NotFiltered
    /\ gen_input' = EmptyText
    /\ exc' = "none"
    /\ returned' = NoReturn
    /\ UNCHANGED <<return_detailed_info, unitVars>>

\* agent_node of either run; in the second the proposing model answers, or
\* raises, as it did in the first
agent_replayed ==
    /\ pc = "agent"
    /\ IF prior.phase = 1 THEN agent_node
       ELSE IF prior.first.raised = "agent" THEN Raise("agent", "LLMError")
       ELSE agent_replied(prior.first.reply)

NextPair ==
    \/ \E q \in Queries, d \in BOOLEAN : first_search(q, d)
    \/ second_search
    \/ agent_replayed
    \/ parse_node /\ Replayed'
    \/ tools_node /\ Replayed'
    \/ text2sql_node /\ Replayed'
    \/ filter_decision /\ Replayed'
    \/ result_filter_node /\ Replayed'
    \/ clarifier_node /\ Replayed'
    \/ generation_node /\ Replayed'
    \/ search_return
    \/ search_except

PairSpec == Init /\ [][NextPair]_vars

\* the second run is over
BothRunsDone == pc = "done" /\ prior.phase = 2

\* C22: two runs given the same query and the same model, tool and database
\* responses, one with detailed logging and one without, go through the same
\* stages in the same order and end with the same final answer,
\* validation_status and clarification_needed.
C22_LoggingDoesNotInterfere ==
    BothRunsDone =>
        /\ visited = prior.first.visited
        /\ returned.final_result = prior.first.final_result
        /\ state.validation_status = prior.first.validation_status
        /\ state.clarification_needed = prior.first.clarification_needed

\* both runs over, the traced one second, after a batch with a missing
\* parameter sent them to the clarifier
C22_Witness ==
    /\ BothRunsDone
    /\ enable_detailed_logging
    /\ state.node_traces # <<>>
    /\ Last(visited) = "clarifier"
    /\ state.validation_status = "param_missing"

(***************************************************************************)
(* The query operations and their connections: Text2SQLNode._execute_sql   *)
(* and the methods of DatabaseManager.                                     *)
(***************************************************************************)
DbOps == {"execute_sql", "get_stock_price", "search_ma_breakout_stocks"}

\* the calls of pd.read_sql_query an operation makes: get_stock_price makes
\* one for each ticker it tries, three when ticker has no market suffix
Reads(op) == IF op = "get_stock_price" THEN {1, 3} ELSE {1}

\* the operations whose read is inside try ... finally: conn.close()
ClosesInFinally == {"execute_sql"}

\* conn = sqlite3.connect(path)
connect(op, n) ==
    /\ db.op = "none"
    /\ Len(db.log) < MaxDbOps
    /\ db' = [db EXCEPT !.op = op, !.conn = "open", !.left = n]

\* pd.read_sql_query(query, conn, ...) returns a frame
read_sql_query ==
    /\ db.op # "none"
    /\ db.left > 0
    /\ db' = [db EXCEPT !.left = @ - 1]

\* pd.read_sql_query raises: the operation is left through its finally
\* clause when it has one, and conn.close() further down is not reached
read_sql_query_raises ==
    /\ db.op # "none"
    /\ db.left > 0
    /\ db' = [db EXCEPT
                !.log = Append(@, [op |-> db.op, how |-> "raised",
                                   conn |-> IF db.op \in ClosesInFinally
                                            THEN "closed" ELSE "open"]),
                !.op = "none", !.conn = "none", !.left = 0]

\* conn.close() and the return of the frame
close_and_return ==
    /\ db.op # "none"
    /\ db.left = 0
    /\ db' = [db EXCEPT
                !.log = Append(@, [op |-> db.op, how |-> "returned", conn |-> "closed"]),
                !.op = "none", !.conn = "none"]

NextDb ==
    \/ /\ \E op \in DbOps : \E n \in Reads(op) : connect(op, n)
       /\ UNCHANGED <<agentVars, runVars, parserVars, routeVars, filterVars,
                      extractVars, sessionVars, fmtVars>>
    \/ /\ read_sql_query
       /\ UNCHANGED <<agentVars, runVars, parserVars, routeVars, filterVars,
                      extractVars, sessionVars, fmtVars>>
    \/ /\ read_sql_query_raises
       /\ UNCHANGED <<agentVars, runVars, parserVars, routeVars, filterVars,
                      extractVars, sessionVars, fmtVars>>
    \/ /\ close_and_return
       /\ UNCHANGED <<agentVars, runVars, parserVars, routeVars, filterVars,
                      extractVars, sessionVars, fmtVars>>

DbSpec == Init /\ [][NextDb]_vars

\* C23: the connection of every query operation that has returned or raised
\* is closed, also when its query failed.
C23_ConnectionsClosed ==
    \A i \in 1..Len(db.log) : db.log[i].conn = "closed"

(***************************************************************************)
(* C24..C26: what tools_node and text2sql_node file for each call.         *)
(***************************************************************************)
\* an execution stage has just returned
AfterExecution ==
    /\ visited # <<>>
    /\ Last(visited) \in {"tools", "text2sql"}
    /\ pc # "raised"

\* tool_results has one entry for each call executed so far, in order
OneEntryPerCall ==
    /\ Len(state.tool_results) = Len(outcomes)
    /\ \A i \in 1..Len(outcomes) :
         /\ state.tool_results[i].tool_name = outcomes[i].call.name
         /\ state.tool_results[i].tool_args = outcomes[i].call.args

\* within a run the entries of tool_results stay as they are, new ones are
\* appended behind them
EntriesKept ==
    pc' \notin {"idle", "agent"} =>
        /\ Len(state'.tool_results) >= Len(state.tool_results)
        /\ SubSeq(state'.tool_results, 1, Len(state.tool_results)) = state.tool_results

\* C24: after any execution stage tool_results holds exactly one entry for
\* each call executed so far in the run, calls that faulted or named an
\* unregistered tool included, and an entry once appended is never removed
\* or changed.
C24_OneEntryPerExecutedCall ==
    /\ [](AfterExecution => OneEntryPerCall)
    /\ [][EntriesKept]_vars

\* C25: the status filed in each entry of tool_results is param_missing if
\* and only if the entry's own result text holds a marker, whatever the calls
\* before it in the batch came to.
C25_StatusIsOwnClassification ==
    \A i \in 1..Len(state.tool_results) :
        (state.tool_results[i].status = "param_missing")
            <=> HasMarker(state.tool_results[i].full_result)

\* what a call of the batch came to: a raise or an unregistered name is a
\* tool_error, a marker in the result is param_missing
Classification(o) ==
    IF o.call.name \notin tool_mappings \/ o.out = "raise" THEN "tool_error"
    ELSE IF o.out = "marker" THEN "param_missing"
    ELSE "success"

\* the classification of the last call of the batch that is not a success,
\* success when there is none
LastWriter(batch) ==
    LET failed == {i \in 1..Len(batch) : Classification(batch[i]) # "success"}
    IN  IF failed = {} THEN "success"
        ELSE Classification(batch[CHOOSE i \in failed : \A j \in failed : j <= i])

\* C26: after tools_node ran a non-empty batch, validation_status is success
\* if no call matched a marker or faulted, and otherwise the classification
\* of the last call that did: param_missing for a marker, tool_error for a
\* raise or an unregistered name.
C26_LastWriterWins ==
    (/\ visited # <<>>
     /\ Last(visited) = "tools"
     /\ outcomes # <<>>) =>
        state.validation_status = LastWriter(outcomes)

(***************************************************************************)
(* C27: the frame of clarifier_node.                                       *)
(***************************************************************************)
\* the step just taken is the clarifier's
ClarifierStep == pc = "clarifier" /\ pc' # "clarifier"

\* what clarifier_node writes, what it leaves alone, and where the graph
\* goes from it
ClarifierFrame ==
    ClarifierStep =>
        /\ state'.clarification_needed = TRUE
        /\ state'.result = ClarificationPrompt
        /\ state'.messages = Append(state.messages, AIMessage(ClarificationPrompt))
        /\ state'.retry_count = state.retry_count
        /\ state'.validation_status = state.validation_status
        /\ state'.tool_calls = state.tool_calls
        /\ state'.tool_results = state.tool_results
        /\ state'.tool_execution_results = state.tool_execution_results
        /\ pc' = "end"

\* a step that is not the clarifier's does not set clarification_needed, and
\* no stage runs once the clarifier has
OnlyClarifierSets ==
    /\ (~ClarifierStep /\ state'.clarification_needed) => state.clarification_needed
    /\ (visited # <<>> /\ Last(visited) = "clarifier" /\ pc' # "agent")
          => visited' = visited

\* C27: clarifier_node sets clarification_needed, makes the clarification
\* prompt the result and appends one message; it leaves retry_count,
\* validation_status, the parsed calls and the execution results as they
\* were; no other stage sets clarification_needed and no stage runs after it.
C27_ClarifierFrame == [][ClarifierFrame /\ OnlyClarifierSets]_vars

\* the clarifier has run after a batch that filed results
C27_Witness ==
    /\ pc = "end"
    /\ Last(visited) = "clarifier"
    /\ state.clarification_needed
    /\ state.tool_results # <<>>
    /\ state.validation_status = "param_missing"

(***************************************************************************)
(* C28: an unregistered name in the batch of tools_node.                   *)
(***************************************************************************)
\* tools_node has just returned from a batch with an unregistered name in it
UnknownInBatch ==
    /\ visited # <<>>
    /\ Last(visited) = "tools"
    /\ \E i \in 1..Len(outcomes) : outcomes[i].call.name \notin tool_mappings

\* C28: in tools_node a call whose name is not registered gets the inline
\* unknown-tool line for its result, with no handler's output in it and no
\* entry in tool_results, and sets tool_error (which only a later marker
\* overwrites); the calls behind it in the batch are executed all the same.
C28_UnknownToolInline ==
    UnknownInBatch =>
        \A i \in 1..Len(outcomes) :
            outcomes[i].call.name \notin tool_mappings =>
                \A c \in {outcomes[i].call} :
                    /\ Len(state.tool_execution_results) = Len(outcomes)
                    /\ state.tool_execution_results[i]
                         = <<Line(c.name, c.args, "unknown", 0, FALSE, FALSE)>>
                    /\ \A j \in 1..Len(state.tool_results) :
                          state.tool_results[j].tool_name # c.name
                    /\ (\A j \in (i + 1)..Len(outcomes) : outcomes[j].out # "marker")
                          => state.validation_status = "tool_error"
                    /\ \A j \in (i + 1)..Len(outcomes) :
                          /\ outcomes[j].call = RegularTools(state.tool_calls)[j]
                          /\ state.tool_execution_results[j] # <<>>
                          /\ state.tool_execution_results[j][1].name = outcomes[j].call.name

\* an unregistered name first, a registered call executed behind it
C28_Witness ==
    /\ UnknownInBatch
    /\ Len(outcomes) >= 2
    /\ outcomes[1].call.name = "no_such_tool"
    /\ outcomes[2].call.name \in tool_mappings
    /\ outcomes[2].out = "ok"
    /\ state.tool_execution_results[2][1].kind = "result"
    /\ state.validation_status = "tool_error"

(***************************************************************************)
(* Runs whose replies ask for SQL synthesis, with and without a question   *)
(* of their own.                                                           *)
(***************************************************************************)
SqlSegments ==
    {[wrap |-> "label", obj |-> CallObj("text2sql", a, TRUE)] :
        a \in {Str(""), Str("a"), Str("b")}}
    \cup {[wrap |-> "label", obj |-> CallObj("search_price", Str("a"), TRUE)]}

SqlReplies == SeqsUpTo(SqlSegments, MaxRunSegs)

\* agent_node when the proposing model asks for SQL synthesis
sql_agent_node ==
    /\ pc = "agent"
    /\ \E reply \in SqlReplies : agent_replied(reply)

NextSql ==
    \/ \E q \in Queries, d \in BOOLEAN : search(q, d)
    \/ sql_agent_node
    \/ parse_node
    \/ tools_node
    \/ text2sql_node
    \/ filter_decision
    \/ result_filter_node
    \/ clarifier_node
    \/ generation_node
    \/ search_return
    \/ search_except

SqlSpec == Init /\ [][NextSql]_vars

\* text2sql_node has just returned
AfterText2Sql == visited # <<>> /\ Last(visited) = "text2sql" /\ pc # "raised"

\* the calls text2sql_node executed, in the order it executed them
SqlExecuted ==
    LET sel == SelectSeq(outcomes, LAMBDA o : o.call.name = "text2sql")
    IN  [i \in 1..Len(sel) |-> sel[i].call]

\* C29: text2sql_node executes every text2sql call of the parsed list exactly
\* once, in parsed order, and the question it forwards is the call's args
\* when they are not empty and the query of the run when they are.
C29_SqlCallsOnceInOrder ==
    AfterText2Sql =>
        \A sql \in {Text2SqlCalls(state.tool_calls)} :
        \A ter \in {state.tool_execution_results} :
            /\ SqlExecuted = sql
            /\ Len(ter) >= Len(sql)
            /\ \A j \in 1..Len(sql) :
                 \A entry \in {ter[Len(ter) - Len(sql) + j]} :
                    /\ entry # <<>>
                    /\ entry[1].name = "text2sql"
                    /\ entry[1].args = IF sql[j].args = Str("") THEN QueryText
                                       ELSE sql[j].args

\* two SQL calls executed behind a structured one, the first with empty args
C29_Witness ==
    /\ AfterText2Sql
    /\ "tools" \in Range(visited)
    /\ Len(Text2SqlCalls(state.tool_calls)) = 2
    /\ Text2SqlCalls(state.tool_calls)[1].args = Str("")
    /\ Text2SqlCalls(state.tool_calls)[2].args = Str("b")
    /\ Last(state.tool_execution_results)[1].args = Str("b")

(***************************************************************************)
(* C30: which stage executes which call.                                   *)
(***************************************************************************)
\* C30: tools_node never hands a text2sql call to a registered handler,
\* text2sql_node never executes a call of another name, and no parsed call is
\* executed more often in a run than it stands in the parsed list.
C30_CallsPartitioned ==
    /\ \A i \in 1..Len(outcomes) :
         (outcomes[i].by = "text2sql") <=> (outcomes[i].call.name = "text2sql")
    /\ \A i \in 1..Len(outcomes) :
         \A c \in {outcomes[i].call} :
            Cardinality({j \in 1..Len(outcomes) : outcomes[j].call = c})
               <= Cardinality({j \in 1..Len(state.tool_calls) : state.tool_calls[j] = c})

\* a run whose parsed list was split over both execution stages
C30_Witness ==
    /\ pc = "done"
    /\ Len(outcomes) = 3
    /\ outcomes[1].by = "tools" /\ outcomes[1].call.name \in tool_mappings
    /\ outcomes[2].by = "tools"
    /\ outcomes[3].by = "text2sql"
    /\ state.tool_calls[1].name = "text2sql"

(***************************************************************************)
(* C31: the text result_filter_node reads.                                 *)
(***************************************************************************)
\* C31: the text the filter stage examines, state.result when the stage is
\* about to run, is the result text of all the calls executed in the run,
\* structured and SQL, in execution order.
C31_FilterReadsAccumulatedText ==
    pc = "result_filter" => state.result = Join(state.tool_execution_results)

(***************************************************************************)
(* The SQL formatter on its own: Text2SQLNode._format_results.             *)
(***************************************************************************)
\* the rows _format_results displays at most: df.head(50)
SqlCap == 50

SqlRowCounts == (0..3) \cup ((SqlCap - 1)..(SqlCap + 1)) \cup {MaxSqlRows}

\* a query result of n rows, row i holding the value rows[i]; bad is the
\* place of the first row with a cell its format specification rejects (a
\* NULL price, a text in a volume column), 0 when there is none
Frames ==
    {f \in {[rows |-> [i \in 1..n |-> n - i + 1], bad |-> b] :
                n \in SqlRowCounts, b \in (0..3) \cup {SqlCap, SqlCap + 1}} :
        f.bad <= Len(f.rows)}

SqlLine(kind, num, val, q) == [kind |-> kind, num |-> num, val |-> val, q |-> q]

\* _format_results appending the truncation suffix from SqlCap rows on
format_results_ge(df, original_query) ==
    LET result_count == Len(df.rows)
        head == IF result_count < SqlCap THEN result_count ELSE SqlCap
    IN  IF result_count = 0
        THEN [raised |-> FALSE, text |-> <<SqlLine("nomatch", 0, 0, original_query)>>]
        ELSE IF df.bad \in 1..head
        THEN [raised |-> TRUE, text |-> EmptyText]
        ELSE [raised |-> FALSE,
              text |-> <<SqlLine("count", result_count, 0, Str("")),
                         SqlLine("blank", 0, 0, Str(""))>>
                       \o [i \in 1..head |-> SqlLine("row", i, df.rows[i], Str(""))]
                       \o (IF result_count >= SqlCap
                           THEN <<SqlLine("more", result_count, 0, Str(""))>>
                           ELSE <<>>)]

\* _format_results(df, original_query): the text, or the raise of a format
\* specification on a cell of a displayed row
format_results(df, original_query) ==
    LET result_count == Len(df.rows)
        head == IF result_count < SqlCap THEN result_count ELSE SqlCap
    IN  IF result_count = 0
        THEN [raised |-> FALSE, text |-> <<SqlLine("nomatch", 0, 0, original_query)>>]
        ELSE IF df.bad \in 1..head
        THEN [raised |-> TRUE, text |-> EmptyText]
        ELSE [raised |-> FALSE,
              text |-> <<SqlLine("count", result_count, 0, Str("")),
                         SqlLine("blank", 0, 0, Str(""))>>
                       \o [i \in 1..head |-> SqlLine("row", i, df.rows[i], Str(""))]
                       \o (IF result_count > SqlCap
                           THEN <<SqlLine("more", result_count, 0, Str(""))>>
                           ELSE <<>>)]

InitFormat ==
    /\ enable_detailed_logging = TRUE
    /\ pc = "idle"
    /\ return_detailed_info = FALSE
    /\ state = IdleState
    /\ visited = <<>>
    /\ outcomes = <<>>
    /\ filtered = NotFiltered
    /\ gen_input = EmptyText
    /\ exc = "none"
    /\ returned = NoReturn
    /\ content = <<>>
    /\ parsed = NotParsed
    /\ rin = IdleState
    /\ rout = NotRouted
    /\ fin = NoFilterInput
    /\ fout = NotFilteredYet
    /\ xin = NoExtractInput
    /\ xout = NotHandled
    /\ prior = "none"
    /\ db = NoDbOp
    /\ fmt \in {[NotFormatted EXCEPT !.df = f, !.q = q] :
                    f \in Frames, q \in {Str("a"), QueryText}}

\* formatted_result = self._format_results(results, query)
Format ==
    /\ ~fmt.done
    /\ \E r \in {format_results(fmt.df, fmt.q)} :
          fmt' = [fmt EXCEPT !.done = TRUE, !.raised = r.raised, !.text = r.text]
    /\ UNCHANGED <<agentVars, runVars, parserVars, routeVars, filterVars, extractVars,
                   sessionVars, dbVars>>

NextFormat == Format

FormatSpec == InitFormat /\ [][NextFormat]_vars

\* the lines of one kind in a formatted text, in order
SqlLines(text, kind) == SelectSeq(text, LAMBDA l : l.kind = kind)

\* C32: for a query result of n rows the formatter returns the no-match
\* message when n = 0; otherwise it renders exactly min(n, 50) numbered rows
\* in result order under a header stating n, with the truncation suffix if
\* and only if n > 50. (It returns whenever the cells of the rows it displays
\* can be formatted.)
C32_FormatterShape ==
    fmt.done =>
        \A n \in {Len(fmt.df.rows)} :
        \A shown \in {IF n < 50 THEN n ELSE 50} :
            /\ fmt.raised <=> fmt.df.bad \in 1..shown
            /\ (~fmt.raised /\ n = 0) =>
                  fmt.text = <<SqlLine("nomatch", 0, 0, fmt.q)>>
            /\ (~fmt.raised /\ n > 0) =>
                  /\ SqlLines(fmt.text, "nomatch") = <<>>
                  /\ fmt.text[1].kind = "count" /\ fmt.text[1].num = n
                  /\ Len(SqlLines(fmt.text, "count")) = 1
                  /\ Len(SqlLines(fmt.text, "row")) = shown
                  /\ \A i \in 1..shown :
                        /\ SqlLines(fmt.text, "row")[i].num = i
                        /\ SqlLines(fmt.text, "row")[i].val = fmt.df.rows[i]
                  /\ Len(SqlLines(fmt.text, "more")) = (IF n > 50 THEN 1 ELSE 0)
                  /\ n > 50 => Last(fmt.text).kind = "more" /\ Last(fmt.text).num = n

\* exactly 50 rows, all rendered, no suffix
C32_Witness ==
    /\ fmt.done
    /\ ~fmt.raised
    /\ Len(fmt.df.rows) = 50
    /\ Len(SqlLines(fmt.text, "row")) = 50
    /\ Last(fmt.text).kind = "row"

(***************************************************************************)
(* C33: the second decoding attempt of _extract_parameters.                *)
(***************************************************************************)
\* the pattern of line 81 finds a brace span in the reply and the span is
\* not JSON
SpanFoundNotJson == xin.llm = "ok" /\ xin.reply.shape \in {"broken", "split"}

\* json.loads of the entire trimmed reply succeeds
WholeReplyDecodes == xin.reply.shape = "split" /\ ~xin.reply.prose

\* C33: when the extractor finds a brace span in the reply and the span does
\* not decode as JSON, it decodes the entire trimmed reply and returns that
\* decoding if it succeeds; the empty mapping is returned only when both
\* attempts fail.
C33_WholeReplyFallback ==
    (xout.done /\ SpanFoundNotJson) =>
        xout.params.value = IF WholeReplyDecodes THEN DictValue(xin.reply.obj)
                            ELSE DictValue(EmptyMapping)

(***************************************************************************)
(* C34: retry_count in the runs search starts.                             *)
(***************************************************************************)
\* how often a stage stands in the list of stages run
TimesRun(node) == Cardinality({i \in 1..Len(visited) : visited[i] = node})

\* C34: no stage writes retry_count: in every state of a run started by
\* search it is 0, the clarifier is entered at most once in a run, and an
\* execution stage that ends with param_missing always hands over to the
\* clarifier (the bypass for retry_count >= 2 is never taken).
C34_RetryCountStaysZero ==
    /\ state.retry_count = 0
    /\ TimesRun("clarifier") <= 1
    /\ (/\ visited # <<>>
        /\ Last(visited) \in {"tools", "text2sql"}
        /\ state.validation_status = "param_missing")
           => pc = "clarifier"

\* a finished run that asked for clarification, retry_count still 0
C34_Witness ==
    /\ pc = "done"
    /\ Last(visited) = "clarifier"
    /\ TimesRun("clarifier") = 1
    /\ state.retry_count = 0
    /\ state.validation_status = "param_missing"

(***************************************************************************)
(* C35: the status a run leaves text2sql_node with.                        *)
(***************************************************************************)
\* the SQL stage was the last stage to return
LeftText2Sql == visited # <<>> /\ Last(visited) = "text2sql"

\* the clarifier directly follows the SQL stage in the stages run
ClarifierAfterText2Sql ==
    \E i \in 1..(Len(visited) - 1) :
        visited[i] = "text2sql" /\ visited[i + 1] = "clarifier"

\* C35: when a run leaves text2sql_node, validation_status is not
\* param_missing and the next stage is filter_decision; the clarifier never
\* directly follows the SQL stage, whatever the SQL results hold.
C35_SqlNeverAsksClarification ==
    /\ LeftText2Sql => /\ state.validation_status # "param_missing"
                       /\ pc = "filter_decision"
    /\ ~ClarifierAfterText2Sql

\* the SQL stage returned with a marker in a result text and with a failed
\* synthesis, and handed over to filter_decision
C35_Witness ==
    /\ LeftText2Sql
    /\ pc = "filter_decision"
    /\ HasMarker(state.result)
    /\ \E i \in 1..Len(outcomes) :
          outcomes[i].by = "text2sql" /\ outcomes[i].out = "marker"
    /\ \E i \in 1..Len(outcomes) :
          outcomes[i].by = "text2sql" /\ outcomes[i].out = "raise"

(***************************************************************************)
(* C36: a mixed run whose structured batch lacks a parameter.              *)
(***************************************************************************)
\* tools_node has just returned a mixed call list with status param_missing
StructuredEndedMissing ==
    /\ Mixed(state.tool_calls)
    /\ visited # <<>>
    /\ Last(visited) = "tools"
    /\ state.validation_status = "param_missing"

\* a mixed run at or after that point
MissingMixedRun ==
    /\ Mixed(state.tool_calls)
    /\ "tools" \in Range(visited)
    /\ state.validation_status = "param_missing"

\* search has returned the clarification prompt
ReturnedClarification == pc = "done" /\ AnsweredByClarify

\* C36: in a run whose parsed calls hold both ordinary and text2sql calls, a
\* structured batch that ends with param_missing leads to the run's end in
\* the clarifier with the clarification prompt as the answer; no text2sql
\* call is executed in such a run and the SQL stage is not entered.
C36_MissingParamSkipsSql ==
    /\ [](MissingMixedRun =>
            /\ "text2sql" \notin Range(visited)
            /\ \A i \in 1..Len(outcomes) : outcomes[i].by # "text2sql"
            /\ pc \in {"clarifier", "end", "done"}
            /\ pc = "done" => AnsweredByClarify)
    /\ (StructuredEndedMissing ~> ReturnedClarification)

\* a mixed run answered by the clarification prompt although its structured
\* batch had produced result text
C36_Witness ==
    /\ MissingMixedRun
    /\ ReturnedClarification
    /\ state.tool_execution_results # <<>>
    /\ returned.final_result # Join(state.tool_execution_results)
    /\ \E i \in 1..Len(outcomes) : outcomes[i].by = "tools" /\ outcomes[i].out = "ok"

(***************************************************************************)
(* C37: the run-level status after both execution stages.                  *)
(***************************************************************************)
\* both execution stages have returned in this run
BothStagesRan ==
    /\ "tools" \in Range(visited)
    /\ "text2sql" \in Range(visited)

\* the status text2sql_node writes for the SQL calls it executed: tool_error
\* when a call raised into its loop, success otherwise
SqlStageStatus ==
    IF \E i \in 1..Len(outcomes) :
          /\ outcomes[i].by = "text2sql"
          /\ execute_text2sql(outcomes[i].call, QueryText, outcomes[i].out, MaxLines).raised
    THEN "tool_error" ELSE "success"

\* the structured batch recorded a fault: it was asked for a tool that is not
\* registered
StructuredFault ==
    \E i \in 1..Len(outcomes) :
        outcomes[i].by = "tools" /\ outcomes[i].call.name \notin tool_mappings

\* C37: once both execution stages have run, validation_status is the one
\* text2sql_node wrote, up to and at the completion of the run; a tool_error
\* of the structured batch is not in it.
C37_SqlStatusOverwrites ==
    BothStagesRan =>
        /\ state.validation_status = SqlStageStatus
        /\ StructuredFault => state.validation_status # "tool_error"

\* a completed run of both stages whose structured batch had a fault and whose
\* final status is success
C37_Witness ==
    /\ pc = "done"
    /\ returned.detail = "ok"
    /\ BothStagesRan
    /\ StructuredFault
    /\ state.validation_status = "success"

====
